---- MODULE Spec2Model ----
(***************************************************************************)
(* session-service: the token lifecycle kernel.                            *)
(*                                                                         *)
(* The token endpoint (handlers.TokenHandler) is modelled as one process   *)
(* per in-flight request; a step of a process is one call to the session   *)
(* store (Redis), to the persistent store (Postgres) or to the KeyManager, *)
(* together with the local code that follows it.  Every store call may     *)
(* fail where the code has an error branch for it.  Time is a counter of   *)
(* ticks; Redis keys carry their absolute expiry and vanish when the clock *)
(* reaches it.                                                             *)
(***************************************************************************)
EXTENDS Integers, Sequences, FiniteSets, TLC

(***************************************************************************)
(* Bounds of the model.                                                    *)
(***************************************************************************)
MaxTime == 3
MaxReqs == 3
MaxFaults == 2
\* A request issues at most one refresh token.
MaxTok == MaxReqs
\* Key pairs the KeyManager creates, the configured one included.
MaxKeys == 3
\* Access tokens minted in a run of SpecKeys.
MaxMints == 1

(***************************************************************************)
(* Configuration, in ticks of the model clock.                             *)
(***************************************************************************)
RefreshTokenExpiry == 2
JWTExpiry == 3
RateLimitWindow == 2
ClientCacheTTL == 3

JWTIssuer == "session-service"
JWTAudience == "api"

Procs == {"p1", "p2"}
\* The goroutine of main that rotates the keys.
Scheduler == "scheduler"
Tenants == {"T1", "T2"}
\* c1 is a client with a rate limit of 1 a window, c2 one with a limit of 3.
ClientIDs == {"c1", "c2"}
GoodSecret == "s1"

\* The zero time.Time of an unset KeyPair.ExpiresAt.
ZeroTime == 0
\* A Redis key without a TTL.
NoTTL == -1
\* refresh_token = "" and a non-empty string the service never issued.
EmptyTok == 0
BogusTok == MaxTok + 1
\* A record written by the earlier handler, whose RefreshTokenData has no Subject.
LegacyTok == MaxTok + 2

VARIABLES
    now,            \* time.Now(), in ticks
    rt,             \* Redis refresh_token:<tok>  -> [client_id, subject, expires_at, exp]
    rrev,           \* Redis revoked:refresh:<tok> -> exp
    jrev,           \* Redis revoked:jti:<jti>     -> exp
    rl,             \* Redis rate_limit:<client>   -> [count, exp]
    ccache,         \* Redis client:<client>       -> [client, exp]
    dbClients,      \* clients table: client_id -> [hash, rate_limit, updated_at]
    dbTenants,      \* tenants table: set of ids
    dbUsers,        \* users table: id -> [tenant_id, full_name, phone, email]
    dbRoles,        \* user_roles table: user id -> set of roles
    keys,           \* KeyManager.keys: kid -> [expires_at, is_active, material]
    currentKeyID,   \* KeyManager.currentKeyID
    nextKid,        \* the next uuid of NewKeyManager / RotateKeys
    gracePeriod,    \* the scheduler's gracePeriod (configuration)
    retired,        \* history: kid -> the time RotateKeys superseded it
    verdict,        \* the answer of the last HandleVerify
    marked,         \* history: jti -> expiry of the marker RevokeToken last wrote
    nextTok,        \* the next value of GenerateRefreshToken
    nextJti,        \* the next uuid of GenerateAccessToken
    pc,             \* where each request is, and where the rotation scheduler is
    loc,            \* each request's locals
    nreq,           \* requests started
    okCount,        \* history: refresh tok -> number of 200 responses to its rotation
    origin,         \* history: refresh tok -> what the primary grant of its chain issued
    win,            \* history: client -> the rate-limit window in progress
    faults,         \* store calls that have failed so far
    faultable       \* the store calls that may fail in this run

redisVars == <<rt, rrev, jrev, rl, ccache>>
dbVars == <<dbClients, dbTenants, dbUsers, dbRoles>>
kmVars == <<keys, currentKeyID, nextKid, gracePeriod, retired>>
verVars == <<verdict, marked>>
genVars == <<nextTok, nextJti>>
histVars == <<okCount, origin, win>>
vars == <<now, redisVars, dbVars, kmVars, verVars, genVars, pc, loc, nreq, histVars, faults,
          faultable>>

(***************************************************************************)
(* Finite maps.                                                            *)
(***************************************************************************)
Put(f, k, v) == [x \in (DOMAIN f) \cup {k} |-> IF x = k THEN v ELSE f[x]]
Del(f, k) == [x \in (DOMAIN f) \ {k} |-> f[x]]
EmptyMap == [x \in {} |-> 0]

(***************************************************************************)
(* models.TokenSubject and models.Client, with the nil pointer.            *)
(***************************************************************************)
NilSubject == [isNil |-> TRUE, user_id |-> "", tenant_id |-> "", roles |-> <<>>, scopes |-> <<>>]
Subject(u, t, r) == [isNil |-> FALSE, user_id |-> u, tenant_id |-> t, roles |-> r, scopes |-> <<>>]
NilClient == [isNil |-> TRUE, client_id |-> "", hash |-> "", rate_limit |-> 0]
ClientOf(id, row) == [isNil |-> FALSE, client_id |-> id, hash |-> row.hash, rate_limit |-> row.rate_limit]
NilData == [isNil |-> TRUE, client_id |-> "", subject |-> NilSubject, expires_at |-> 0]

(***************************************************************************)
(* auth.KeyManager.  A key's material is named by a number; the public key *)
(* with material m verifies exactly the signatures made with the private   *)
(* key with material m.                                                    *)
(***************************************************************************)
NoKey == 0

KeyUsableBefore(kid, t) ==
    /\ kid \in DOMAIN keys
    /\ keys[kid].is_active
    /\ ~(keys[kid].expires_at # ZeroTime /\ keys[kid].expires_at <= t)
\* ok && key.IsActive && !(!key.ExpiresAt.IsZero() && key.ExpiresAt.Before(t))
KeyUsable(kid, t) ==
    /\ kid \in DOMAIN keys
    /\ keys[kid].is_active
    /\ ~(keys[kid].expires_at # ZeroTime /\ keys[kid].expires_at < t)

\* The private key of the current key, or nil.
GetPrivateKey ==
    IF currentKeyID \in DOMAIN keys /\ keys[currentKeyID].is_active
    THEN keys[currentKeyID].material
    ELSE NoKey

GetCurrentKeyID == currentKeyID

\* The public key of kid, or NoKey for the error "not found, inactive or expired".
GetPublicKeyByID(kid) ==
    IF KeyUsable(kid, now) THEN keys[kid].material ELSE NoKey

GetJWKSetBeforeExpiry == {kid \in DOMAIN keys : KeyUsableBefore(kid, now)}
\* The kids of the JWKS view.
GetJWKSet == {kid \in DOMAIN keys : KeyUsable(kid, now)}

NewKeyPair(kid) == [expires_at |-> ZeroTime, is_active |-> TRUE, material |-> kid]

RotatedKeysAllStamped(grace) ==
    LET added == Put(keys, nextKid, NewKeyPair(nextKid))
    IN  [k \in DOMAIN added |-> [added[k] EXCEPT !.expires_at = now + grace]]
RotatedKeysRestamped(grace) ==
    Put([k \in DOMAIN keys |-> [keys[k] EXCEPT !.expires_at = now + grace]],
        nextKid, NewKeyPair(nextKid))
\* The keys map after a RotateKeys(grace) that has generated its key.
RotatedKeys(grace) ==
    LET stamped == IF currentKeyID \in DOMAIN keys
                  THEN [keys EXCEPT ![currentKeyID].expires_at = now + grace]
                  ELSE keys
    IN  Put(stamped, nextKid, NewKeyPair(nextKid))

CleanedOfRetired ==
    [kid \in {k \in DOMAIN keys : keys[k].expires_at = ZeroTime} |-> keys[kid]]
CleanedOneTickLate ==
    LET dead == {kid \in DOMAIN keys :
                    keys[kid].expires_at # ZeroTime /\ keys[kid].expires_at + 1 < now}
    IN  [kid \in (DOMAIN keys) \ dead |-> keys[kid]]
\* The keys map after CleanupExpiredKeys.
CleanedKeys ==
    LET dead == {kid \in DOMAIN keys :
                    keys[kid].expires_at # ZeroTime /\ keys[kid].expires_at < now}
    IN  [kid \in (DOMAIN keys) \ dead |-> keys[kid]]

(***************************************************************************)
(* auth.TokenGenerator: the claims of an access token and its signing.     *)
(***************************************************************************)
NoClaims == [iss |-> "", aud |-> "", exp |-> 0, iat |-> 0, jti |-> 0, sub |-> "", oid |-> "",
             hasTid |-> FALSE, tid |-> "", hasRoles |-> FALSE, roles |-> <<>>, hasScp |-> FALSE, scp |-> <<>>]
NilAccess == [isNil |-> TRUE, alg |-> "", kid |-> 0, sig |-> NoKey, claims |-> NoClaims]

ClientOnlyClaims(subject, t, jti) ==
    [iss |-> JWTIssuer, aud |-> JWTAudience, exp |-> t + JWTExpiry, iat |-> t, jti |-> jti,
     sub |-> "", oid |-> "", hasTid |-> FALSE, tid |-> "",
     hasRoles |-> FALSE, roles |-> <<>>, hasScp |-> FALSE, scp |-> <<>>]
\* The claims map of GenerateAccessToken at time t.
AccessClaims(subject, t, jti) ==
    [iss |-> JWTIssuer, aud |-> JWTAudience, exp |-> t + JWTExpiry, iat |-> t, jti |-> jti,
     sub |-> subject.user_id, oid |-> subject.user_id,
     hasTid |-> TRUE, tid |-> subject.tenant_id,
     hasRoles |-> Len(subject.roles) > 0,
     roles |-> IF Len(subject.roles) > 0 THEN subject.roles ELSE <<>>,
     hasScp |-> Len(subject.scopes) > 0,
     scp |-> IF Len(subject.scopes) > 0 THEN subject.scopes ELSE <<>>]

\* jwt.NewWithClaims(RS256, claims) with the kid header set when kid is not "".
UnsignedToken(claims, kid) ==
    [isNil |-> FALSE, alg |-> "RS256", kid |-> kid, sig |-> NoKey, claims |-> claims]

SignedString(tok, priv) == [tok EXCEPT !.sig = priv]

(***************************************************************************)
(* Requests and the locals of a request in flight.                         *)
(***************************************************************************)
NoReq == [grant_type |-> "", tenant_id |-> "", client_id |-> "", client_secret |-> "",
          user_id |-> "", user_full_name |-> "", user_phone |-> "", user_email |-> "",
          user_roles |-> <<>>, refresh_token |-> EmptyTok]

\* errors.ServiceError: the Code and the Status of each error of pkg/errors.
ServiceError(res) ==
    CASE res = "InvalidCredentials" -> [Code |-> "INVALID_CREDENTIALS", Status |-> 401]
      [] res = "RateLimitExceeded" -> [Code |-> "RATE_LIMIT_EXCEEDED", Status |-> 429]
      [] res = "InvalidGrant" -> [Code |-> "INVALID_GRANT", Status |-> 400]
      [] res = "InvalidRequest" -> [Code |-> "INVALID_REQUEST", Status |-> 400]
      [] res = "InvalidRefreshToken" -> [Code |-> "INVALID_REFRESH_TOKEN", Status |-> 401]
      [] OTHER -> [Code |-> "INTERNAL_SERVER_ERROR", Status |-> 500]

\* The response of a request: the status, the headers the handler has set,
\* the "error" member of an error body, and token_type and expires_in of a
\* TokenResponse (its two tokens are the locals token and newTok).
NoResp == [status |-> 0, header |-> {}, error |-> "", token_type |-> "", expires_in |-> 0]

\* sendError: Content-Type, WriteHeader(err.Status), the body with err.Code.
ErrorResponse(res) ==
    [status |-> ServiceError(res).Status,
     header |-> {<<"Content-Type", "application/json">>},
     error |-> ServiceError(res).Code, token_type |-> "", expires_in |-> 0]

\* sendJSON(200, &models.TokenResponse{...})
TokenResponse ==
    [status |-> 200,
     header |-> {<<"Content-Type", "application/json">>},
     error |-> "", token_type |-> "Bearer", expires_in |-> JWTExpiry]

\* History: the users, the roles, the refresh-token records and the
\* revocation markers as they are when a request arrives.
Stored == [rt |-> rt, rrev |-> rrev, dbUsers |-> dbUsers, dbRoles |-> dbRoles]
NothingStored == [rt |-> EmptyMap, rrev |-> EmptyMap, dbUsers |-> EmptyMap, dbRoles |-> EmptyMap]

InitLoc == [req |-> NoReq, client |-> NilClient, count |-> 0, data |-> NilData,
            subject |-> NilSubject, iat |-> 0, jti |-> 0, kid |-> 0, token |-> NilAccess,
            newTok |-> EmptyTok, replay |-> FALSE, result |-> "none", resp |-> NoResp,
            cacheOp |-> "none", oldRoles |-> {}, pre |-> NothingStored]

\* bcrypt.GenerateFromPassword / bcrypt.CompareHashAndPassword
BcryptHash(secret) == <<"bcrypt", secret>>
CompareHashAndPassword(hash, secret) == hash = BcryptHash(secret)

\* The calls of the handlers to Redis and Postgres.
RefreshCalls == {"GetRefreshToken", "IsRefreshTokenRevoked", "GetClientByID", "Incr", "Expire",
                 "RevokeRefreshToken", "DeleteRefreshToken", "StoreRefreshToken"}
StoreCalls == RefreshCalls \cup {"GetClient", "SetClient", "EnsureTenantExists", "GetUserByID",
                                 "GetUserRoles", "UpsertUserAndRoles", "UpdateClientUpdatedAt",
                                 "RevokeToken", "IsTokenRevoked"}

\* A call to Redis or Postgres: it answers (ok) or, when the call is one of
\* those the environment lets fail, ends with a transient error.
Call(op, ok) ==
    /\ ok \/ (op \in faultable /\ faults < MaxFaults)
    /\ faults' = IF ok THEN faults ELSE faults + 1

Goto(p, l, next) ==
    /\ pc' = [pc EXCEPT ![p] = next]
    /\ loc' = [loc EXCEPT ![p] = l]
    /\ UNCHANGED <<okCount, origin>>

\* sendError: the request ends with the ServiceError res.
SendError(p, l, res) ==
    /\ pc' = [pc EXCEPT ![p] = "done"]
    /\ loc' = [loc EXCEPT ![p] = [InitLoc EXCEPT !.req = l.req, !.replay = l.replay,
                                                !.count = l.count, !.client = l.client,
                                                !.result = res,
                                                !.resp = ErrorResponse(res),
                                                !.cacheOp = l.cacheOp,
                                                !.oldRoles = l.oldRoles,
                                                !.pre = l.pre]]
    /\ UNCHANGED <<okCount, origin>>

\* The window of the rate-limit history that time t falls in, if any.
InWindow(c, t) == win[c].start >= 0 /\ t < win[c].start + RateLimitWindow

ClaimsView(claims) ==
    [sub |-> claims.sub, hasTid |-> claims.hasTid, tid |-> claims.tid, hasRoles |-> claims.hasRoles,
     roles |-> claims.roles, hasScp |-> claims.hasScp, scp |-> claims.scp]

\* sendJSON(200, TokenResponse): the request ends with the pair (l.token, l.newTok).
SendOK(p, l) ==
    LET c == IF l.req.grant_type = "refresh_token" THEN l.data.client_id ELSE l.req.client_id
        first == [client_id |-> c, subject |-> l.subject, claims |-> ClaimsView(l.token.claims)]
    IN  /\ pc' = [pc EXCEPT ![p] = "done"]
        /\ loc' = [loc EXCEPT ![p] = [InitLoc EXCEPT !.req = l.req, !.replay = l.replay,
                                                    !.count = l.count, !.client = l.client,
                                                    !.subject = l.subject,
                                                    !.token = l.token, !.newTok = l.newTok,
                                                    !.result = "OK",
                                                    !.resp = TokenResponse,
                                                    !.cacheOp = l.cacheOp,
                                                    !.oldRoles = l.oldRoles,
                                                    !.pre = l.pre]]
        /\ okCount' = IF l.req.grant_type = "refresh_token"
                      THEN [okCount EXCEPT ![l.req.refresh_token] = @ + 1]
                      ELSE okCount
        /\ origin' = IF l.req.grant_type = "refresh_token"
                     THEN IF l.req.refresh_token \in DOMAIN origin
                          THEN Put(origin, l.newTok, origin[l.req.refresh_token])
                          ELSE origin
                     ELSE Put(origin, l.newTok, first)
        /\ win' = IF InWindow(c, now)
                  THEN [win EXCEPT ![c].granted = @ + 1]
                  ELSE win

(***************************************************************************)
(* Time.  A Redis key with a TTL is gone once the clock reaches its expiry.*)
(***************************************************************************)
LiveRec(f, t) == [k \in {x \in DOMAIN f : f[x].exp = NoTTL \/ f[x].exp > t} |-> f[k]]
LiveMark(f, t) == [k \in {x \in DOMAIN f : f[x] > t} |-> f[k]]

Tick ==
    /\ now < MaxTime
    /\ now' = now + 1
    /\ rt' = LiveRec(rt, now + 1)
    /\ rl' = LiveRec(rl, now + 1)
    /\ ccache' = LiveRec(ccache, now + 1)
    /\ rrev' = LiveMark(rrev, now + 1)
    /\ jrev' = LiveMark(jrev, now + 1)
    /\ UNCHANGED <<faultable, dbVars, kmVars, verVars, genVars, pc, loc, nreq, histVars, faults>>

(***************************************************************************)
(* TokenHandler.HandleToken: the dispatch on grant_type, with the checks   *)
(* each grant makes before its first store call.                           *)
(***************************************************************************)
HandleToken(p, r) ==
    /\ pc[p] \in {"idle", "done"}
    /\ nreq < MaxReqs
    /\ nextTok <= MaxTok
    /\ nreq' = nreq + 1
    /\ LET l == [InitLoc EXCEPT !.req = r,
                                !.replay = (r.grant_type = "refresh_token"
                                            /\ okCount[r.refresh_token] > 0),
                                !.pre = Stored]
       IN  IF r.tenant_id = ""
           THEN SendError(p, l, "InvalidRequest")
           ELSE IF r.grant_type \in {"client_credentials", "provision_user"}
           THEN IF r.client_id = "" \/ r.client_secret = ""
                THEN SendError(p, l, "InvalidCredentials")
                ELSE Goto(p, l, "GetClient")
           ELSE IF r.grant_type = "refresh_token"
           THEN IF r.refresh_token = EmptyTok
                THEN SendError(p, l, "InvalidRefreshToken")
                ELSE Goto(p, l, "GetRefreshToken")
           ELSE SendError(p, l, "InvalidGrant")
    /\ UNCHANGED <<faultable, now, redisVars, dbVars, kmVars, verVars, genVars, win, faults>>

(***************************************************************************)
(* handleRefreshToken, up to the rate-limit check.                         *)
(***************************************************************************)
\* cache.GetRefreshToken
GetRefreshToken(p) ==
    /\ pc[p] = "GetRefreshToken"
    /\ LET l == loc[p]
           tok == l.req.refresh_token
       IN  \E ok \in BOOLEAN :
             /\ Call("GetRefreshToken", ok)
             /\ IF ~ok
                THEN SendError(p, l, "Internal")
                ELSE IF tok \notin DOMAIN rt
                THEN SendError(p, l, "InvalidRefreshToken")
                ELSE Goto(p, [l EXCEPT !.data = [isNil |-> FALSE,
                                              client_id |-> rt[tok].client_id,
                                              subject |-> rt[tok].subject,
                                              expires_at |-> rt[tok].expires_at]],
                          "IsRefreshTokenRevoked")
    /\ UNCHANGED <<faultable, now, redisVars, dbVars, kmVars, verVars, genVars, nreq, win>>

IsRefreshTokenRevokedThenDelete(p) ==
    /\ pc[p] = "IsRefreshTokenRevoked"
    /\ LET l == loc[p]
           marked_ == l.req.refresh_token \in DOMAIN rrev
       IN  \E ok \in BOOLEAN :
             /\ Call("IsRefreshTokenRevoked", ok)
             /\ rt' = IF ok /\ marked_ THEN Del(rt, l.req.refresh_token) ELSE rt
             /\ IF ~ok
                THEN SendError(p, l, "Internal")
                ELSE IF marked_
                THEN SendError(p, l, "InvalidRefreshToken")
                ELSE Goto(p, l, "RefreshGetClient")
    /\ UNCHANGED <<faultable, now, rrev, jrev, rl, ccache, dbVars, kmVars, verVars, genVars, nreq, win>>
\* cache.IsRefreshTokenRevoked
IsRefreshTokenRevoked(p) ==
    /\ pc[p] = "IsRefreshTokenRevoked"
    /\ LET l == loc[p]
       IN  \E ok \in BOOLEAN :
             /\ Call("IsRefreshTokenRevoked", ok)
             /\ IF ~ok
                THEN SendError(p, l, "Internal")
                ELSE IF l.req.refresh_token \in DOMAIN rrev
                THEN SendError(p, l, "InvalidRefreshToken")
                ELSE Goto(p, l, "RefreshGetClient")
    /\ UNCHANGED <<faultable, now, redisVars, dbVars, kmVars, verVars, genVars, nreq, win>>

RefreshSubjectFromRepo(data) ==
    IF data.subject.isNil
    THEN data.subject
    ELSE [data.subject EXCEPT
            !.roles = IF data.subject.user_id \in DOMAIN dbRoles
                      THEN CHOOSE r \in [1..Cardinality(dbRoles[data.subject.user_id])
                                           -> dbRoles[data.subject.user_id]] :
                                    \A i, j \in DOMAIN r : r[i] = r[j] => i = j
                      ELSE <<>>]
\* subject := tokenData.Subject
RefreshSubject(data) == data.subject

SubjectAnyTenant(subject, tenantID) == subject.isNil
\* subject == nil || subject.TenantID != tenantID
SubjectRejected(subject, tenantID) == subject.isNil \/ subject.tenant_id # tenantID

\* The expiry check, the tenant check and repo.GetClientByID.
RefreshGetClient(p) ==
    /\ pc[p] = "RefreshGetClient"
    /\ LET l == loc[p]
           subject == RefreshSubject(l.data)
           clientID == l.data.client_id
       IN  IF now > l.data.expires_at
           THEN SendError(p, l, "InvalidRefreshToken") /\ UNCHANGED faults
           ELSE IF SubjectRejected(subject, l.req.tenant_id)
           THEN SendError(p, l, "InvalidRefreshToken") /\ UNCHANGED faults
           ELSE \E ok \in BOOLEAN :
                  /\ Call("GetClientByID", ok)
                  /\ IF ~ok
                     THEN SendError(p, l, "Internal")
                     ELSE IF clientID \notin DOMAIN dbClients
                     THEN SendError(p, l, "InvalidRefreshToken")
                     ELSE Goto(p, [l EXCEPT !.client = ClientOf(clientID, dbClients[clientID]),
                                            !.subject = subject],
                               "Incr")
    /\ UNCHANGED <<faultable, now, redisVars, dbVars, kmVars, verVars, genVars, nreq, win>>

(***************************************************************************)
(* cache.CheckRateLimit: INCR, then EXPIRE when the count is 1, then the   *)
(* comparison with the limit; and what each grant does with the answer.    *)
(***************************************************************************)
RateLimitClient(l) ==
    IF l.req.grant_type = "refresh_token" THEN l.data.client_id ELSE l.req.client_id

ExceededByTwo(count, limit) == count > limit + 1
\* return count > int64(limit)
Exceeded(count, limit) == count > limit

\* GenerateAccessToken starts: time.Now() and uuid.New().
EnterMint(p, l) ==
    /\ Goto(p, [l EXCEPT !.iat = now, !.jti = nextJti], "GetCurrentKeyID")
    /\ nextJti' = nextJti + 1

UserCheckedFirst(p, l) ==
    IF l.req.grant_type # "refresh_token" /\ l.req.user_id = ""
    THEN SendError(p, l, "InvalidRequest")
    ELSE IF Exceeded(l.count, l.client.rate_limit)
    THEN SendError(p, l, "RateLimitExceeded")
    ELSE IF l.req.grant_type = "refresh_token"
    THEN Goto(p, l, "RevokeRefreshToken")
    ELSE IF l.req.grant_type = "provision_user"
            /\ (l.req.user_full_name = "" \/ l.req.user_phone = "")
    THEN SendError(p, l, "InvalidRequest")
    ELSE Goto(p, l, "EnsureTenantExists")
\* The answer of CheckRateLimit, then the checks of the user fields.
AfterRateLimit(p, l) ==
    IF Exceeded(l.count, l.client.rate_limit)
    THEN SendError(p, l, "RateLimitExceeded")
    ELSE IF l.req.grant_type = "refresh_token"
    THEN Goto(p, l, "RevokeRefreshToken")
    ELSE IF l.req.user_id = ""
    THEN SendError(p, l, "InvalidRequest")
    ELSE IF l.req.grant_type = "provision_user"
            /\ (l.req.user_full_name = "" \/ l.req.user_phone = "")
    THEN SendError(p, l, "InvalidRequest")
    ELSE Goto(p, l, "EnsureTenantExists")

\* The history of the limiter of client c after an INCR that returned count:
\* a window of RateLimitWindow ticks starts at the first request after the
\* window before it; passed counts, in the lifetime of one counter key, the
\* requests the comparison let through.
Counted(c, count, limit) ==
    LET w == IF InWindow(c, now) THEN win[c] ELSE [win[c] EXCEPT !.start = now, !.granted = 0]
        passed == IF count = 1 THEN 0 ELSE w.passed
    IN  [win EXCEPT ![c] = [w EXCEPT !.passed = IF Exceeded(count, limit)
                                               THEN passed
                                               ELSE passed + 1]]

Incr(p) ==
    /\ pc[p] = "Incr"
    /\ LET l == loc[p]
           c == RateLimitClient(l)
           count == IF c \in DOMAIN rl THEN rl[c].count + 1 ELSE 1
           exp == IF c \in DOMAIN rl THEN rl[c].exp ELSE NoTTL
           l2 == [l EXCEPT !.count = count]
       IN  \E ok \in BOOLEAN :
             /\ Call("Incr", ok)
             /\ IF ~ok
                THEN /\ SendError(p, l, "Internal")
                     /\ UNCHANGED <<rl, win>>
                ELSE /\ rl' = Put(rl, c, [count |-> count, exp |-> exp])
                     /\ win' = Counted(c, count, l.client.rate_limit)
                     /\ IF count = 1
                        THEN Goto(p, l2, "Expire")
                        ELSE AfterRateLimit(p, l2)
    /\ UNCHANGED <<faultable, now, rt, rrev, jrev, ccache, dbVars, kmVars, verVars, genVars, nreq>>

ExpireOrFail(p) ==
    /\ pc[p] = "Expire"
    /\ LET l == loc[p]
           c == RateLimitClient(l)
       IN  \E ok \in BOOLEAN :
             /\ Call("Expire", ok)
             /\ rl' = IF ok /\ c \in DOMAIN rl
                      THEN [rl EXCEPT ![c].exp = now + RateLimitWindow]
                      ELSE rl
             /\ IF ok THEN AfterRateLimit(p, l) ELSE SendError(p, l, "Internal")
    /\ UNCHANGED <<faultable, now, rt, rrev, jrev, ccache, dbVars, kmVars, verVars, genVars, nreq, win>>
\* The EXPIRE of CheckRateLimit after a count of 1: its error is logged.
Expire(p) ==
    /\ pc[p] = "Expire"
    /\ LET l == loc[p]
           c == RateLimitClient(l)
       IN  /\ \E ok \in BOOLEAN :
                /\ Call("Expire", ok)
                /\ rl' = IF ok /\ c \in DOMAIN rl
                         THEN [rl EXCEPT ![c].exp = now + RateLimitWindow]
                         ELSE rl
           /\ AfterRateLimit(p, l)
    /\ UNCHANGED <<faultable, now, rt, rrev, jrev, ccache, dbVars, kmVars, verVars, genVars, nreq, win>>

(***************************************************************************)
(* handleRefreshToken, the rotation: the marker, the delete (the error of  *)
(* either is logged and the handler goes on), then the new pair.           *)
(***************************************************************************)
\* The TTL the handler gives the revocation marker of the consumed token.
RevocationTTL(l) == RefreshTokenExpiry

RevokeRefreshToken(p) ==
    /\ pc[p] = "RevokeRefreshToken"
    /\ LET l == loc[p]
           tok == l.req.refresh_token
       IN  /\ \E ok \in BOOLEAN :
                /\ Call("RevokeRefreshToken", ok)
                /\ rrev' = IF ok THEN Put(rrev, tok, now + RevocationTTL(l)) ELSE rrev
           /\ Goto(p, l, "DeleteRefreshToken")
    /\ UNCHANGED <<faultable, now, rt, jrev, rl, ccache, dbVars, kmVars, verVars, genVars, nreq, win>>

DeleteRefreshToken(p) ==
    /\ pc[p] = "DeleteRefreshToken"
    /\ LET l == loc[p]
           tok == l.req.refresh_token
       IN  /\ \E ok \in BOOLEAN :
                /\ Call("DeleteRefreshToken", ok)
                /\ rt' = IF ok THEN Del(rt, tok) ELSE rt
           /\ IF l.subject.isNil
              THEN SendError(p, l, "InvalidRefreshToken") /\ UNCHANGED nextJti
              ELSE EnterMint(p, l)
    /\ UNCHANGED <<faultable, now, rrev, jrev, rl, ccache, dbVars, kmVars, verVars, nextTok, nreq, win>>

(***************************************************************************)
(* TokenGenerator.GenerateAccessToken reads the kid and the private key in *)
(* two calls of the KeyManager, each under its own read lock; then         *)
(* GenerateRefreshToken, and the RefreshTokenData with its ExpiresAt.      *)
(***************************************************************************)
ReadCurrentKeyID(p) ==
    /\ pc[p] = "GetCurrentKeyID"
    /\ Goto(p, [loc[p] EXCEPT !.kid = GetCurrentKeyID], "GetPrivateKey")
    /\ UNCHANGED <<faultable, now, redisVars, dbVars, kmVars, verVars, genVars, nreq, win, faults>>

\* The key SignedString signs with.
SigningKey == GetPrivateKey

SignAccessToken(p) ==
    /\ pc[p] = "GetPrivateKey"
    /\ LET l == loc[p]
           tok == SignedString(UnsignedToken(AccessClaims(l.subject, l.iat, l.jti), l.kid),
                               SigningKey)
       IN  IF SigningKey = NoKey
           THEN SendError(p, l, "Internal") /\ UNCHANGED <<nextTok>>
           ELSE /\ Goto(p, [l EXCEPT !.token = tok, !.newTok = nextTok], "StoreRefreshToken")
                /\ nextTok' = nextTok + 1
    /\ UNCHANGED <<faultable, now, redisVars, dbVars, kmVars, verVars, nextJti, nreq, win, faults>>

RefreshTokenDataNoSubject(l) ==
    [client_id |-> RateLimitClient(l), subject |-> NilSubject,
     expires_at |-> now + RefreshTokenExpiry, exp |-> now + RefreshTokenExpiry]
\* &models.RefreshTokenData{ClientID, Subject, ExpiresAt: time.Now().Add(RefreshTokenExpiry)}
\* as Redis holds it once stored with the TTL RefreshTokenExpiry (exp).
RefreshTokenData(l) ==
    [client_id |-> RateLimitClient(l), subject |-> l.subject,
     expires_at |-> now + RefreshTokenExpiry, exp |-> now + RefreshTokenExpiry]

\* cache.StoreRefreshToken: SET refresh_token:<tok> with the TTL.
StoreRefreshToken(p) ==
    /\ pc[p] = "StoreRefreshToken"
    /\ LET l == loc[p]
           rec == RefreshTokenData(l)
       IN  \E ok \in BOOLEAN :
             /\ Call("StoreRefreshToken", ok)
             /\ IF ~ok
                THEN /\ SendError(p, l, "Internal")
                     /\ UNCHANGED <<rt, win>>
                ELSE /\ rt' = Put(rt, l.newTok, rec)
                     /\ IF l.req.grant_type = "refresh_token"
                        THEN SendOK(p, l)
                        ELSE Goto(p, l, "UpdateClientUpdatedAt") /\ UNCHANGED win
    /\ UNCHANGED <<faultable, now, rrev, jrev, rl, ccache, dbVars, kmVars, verVars, genVars, nreq>>

\* repo.UpdateClientUpdatedAt (its error is logged), then the response.
UpdateClientUpdatedAt(p) ==
    /\ pc[p] = "UpdateClientUpdatedAt"
    /\ LET l == loc[p]
           c == l.req.client_id
       IN  /\ \E ok \in BOOLEAN :
                /\ Call("UpdateClientUpdatedAt", ok)
                /\ dbClients' = IF ok /\ c \in DOMAIN dbClients
                                THEN [dbClients EXCEPT ![c].updated_at = now]
                                ELSE dbClients
           /\ SendOK(p, l)
    /\ UNCHANGED <<faultable, now, redisVars, dbTenants, dbUsers, dbRoles, kmVars, verVars, genVars, nreq>>

(***************************************************************************)
(* The primary grants (handleClientCredentials, handleUserProvisioning):   *)
(* the client from the cache or the clients table, the secret, the rate    *)
(* limit, the tenant, then the user.                                       *)
(***************************************************************************)
\* The secret check, after the client has been resolved.
VerifySecret(p, l) ==
    IF CompareHashAndPassword(l.client.hash, l.req.client_secret)
    THEN Goto(p, l, "Incr")
    ELSE SendError(p, l, "InvalidCredentials")

GetClientOrFail(p) ==
    /\ pc[p] = "GetClient"
    /\ LET l == loc[p]
           c == l.req.client_id
       IN  \E ok \in BOOLEAN :
             /\ Call("GetClient", ok)
             /\ IF ~ok
                THEN SendError(p, [l EXCEPT !.cacheOp = "miss"], "Internal")
                ELSE IF c \in DOMAIN ccache
                THEN VerifySecret(p, [l EXCEPT !.client = ccache[c].client, !.cacheOp = "hit"])
                ELSE Goto(p, [l EXCEPT !.cacheOp = "miss"], "GetClientByID")
    /\ UNCHANGED <<faultable, now, redisVars, dbVars, kmVars, verVars, genVars, nreq, win>>
\* cache.GetClient: an error is logged and counts as a miss.
GetClient(p) ==
    /\ pc[p] = "GetClient"
    /\ LET l == loc[p]
           c == l.req.client_id
       IN  \E ok \in BOOLEAN :
             /\ Call("GetClient", ok)
             /\ IF ok /\ c \in DOMAIN ccache
                THEN VerifySecret(p, [l EXCEPT !.client = ccache[c].client, !.cacheOp = "hit"])
                ELSE Goto(p, [l EXCEPT !.cacheOp = "miss"], "GetClientByID")
    /\ UNCHANGED <<faultable, now, redisVars, dbVars, kmVars, verVars, genVars, nreq, win>>

GetClientByID(p) ==
    /\ pc[p] = "GetClientByID"
    /\ LET l == loc[p]
           c == l.req.client_id
       IN  \E ok \in BOOLEAN :
             /\ Call("GetClientByID", ok)
             /\ IF ~ok
                THEN SendError(p, l, "Internal")
                ELSE IF c \notin DOMAIN dbClients
                THEN SendError(p, l, "InvalidCredentials")
                ELSE Goto(p, [l EXCEPT !.client = ClientOf(c, dbClients[c])], "SetClient")
    /\ UNCHANGED <<faultable, now, redisVars, dbVars, kmVars, verVars, genVars, nreq, win>>

\* cache.SetClient with the 15 minute TTL: an error is logged.
SetClient(p) ==
    /\ pc[p] = "SetClient"
    /\ LET l == loc[p]
           c == l.req.client_id
       IN  /\ \E ok \in BOOLEAN :
                /\ Call("SetClient", ok)
                /\ ccache' = IF ok
                             THEN Put(ccache, c, [client |-> l.client, exp |-> now + ClientCacheTTL])
                             ELSE ccache
                /\ VerifySecret(p, [l EXCEPT !.cacheOp = IF ok THEN "stored" ELSE "unstored"])
    /\ UNCHANGED <<faultable, now, rt, rrev, jrev, rl, dbVars, kmVars, verVars, genVars, nreq, win>>

EnsureTenantCreated(p) ==
    /\ pc[p] = "EnsureTenantExists"
    /\ LET l == loc[p]
       IN  \E ok \in BOOLEAN :
             /\ Call("EnsureTenantExists", ok)
             /\ dbTenants' = IF ok THEN dbTenants \cup {l.req.tenant_id} ELSE dbTenants
             /\ IF ~ok
                THEN SendError(p, l, "InvalidRequest")
                ELSE IF l.req.grant_type = "provision_user"
                THEN Goto(p, l, "UpsertUserAndRoles")
                ELSE Goto(p, l, "GetUserByID")
    /\ UNCHANGED <<faultable, now, redisVars, dbClients, dbUsers, dbRoles, kmVars, verVars, genVars,
                   nreq, win>>
\* repo.EnsureTenantExists: sql.ErrNoRows and every other error end the same way.
EnsureTenantExists(p) ==
    /\ pc[p] = "EnsureTenantExists"
    /\ LET l == loc[p]
       IN  \E ok \in BOOLEAN :
             /\ Call("EnsureTenantExists", ok)
             /\ IF ~ok \/ l.req.tenant_id \notin dbTenants
                THEN SendError(p, l, "InvalidRequest")
                ELSE IF l.req.grant_type = "provision_user"
                THEN Goto(p, l, "UpsertUserAndRoles")
                ELSE Goto(p, l, "GetUserByID")
    /\ UNCHANGED <<faultable, now, redisVars, dbVars, kmVars, verVars, genVars, nreq, win>>

GetUserByIDAnyTenant(p) ==
    /\ pc[p] = "GetUserByID"
    /\ LET l == loc[p]
           u == l.req.user_id
       IN  \E ok \in BOOLEAN :
             /\ Call("GetUserByID", ok)
             /\ IF ~ok
                THEN SendError(p, l, "Internal")
                ELSE IF u \notin DOMAIN dbUsers
                THEN SendError(p, l, "InvalidRequest")
                ELSE Goto(p, l, "GetUserRoles")
    /\ UNCHANGED <<faultable, now, redisVars, dbVars, kmVars, verVars, genVars, nreq, win>>
\* repo.GetUserByID and the tenant check of client_credentials.
GetUserByID(p) ==
    /\ pc[p] = "GetUserByID"
    /\ LET l == loc[p]
           u == l.req.user_id
       IN  \E ok \in BOOLEAN :
             /\ Call("GetUserByID", ok)
             /\ IF ~ok
                THEN SendError(p, l, "Internal")
                ELSE IF u \notin DOMAIN dbUsers
                THEN SendError(p, l, "InvalidRequest")
                ELSE IF dbUsers[u].tenant_id # l.req.tenant_id
                THEN SendError(p, l, "InvalidRequest")
                ELSE Goto(p, l, "GetUserRoles")
    /\ UNCHANGED <<faultable, now, redisVars, dbVars, kmVars, verVars, genVars, nreq, win>>

\* The orders in which SELECT role FROM user_roles may return the rows of a user.
RoleLists(S) ==
    {f \in [1..Cardinality(S) -> S] : \A i, j \in 1..Cardinality(S) : f[i] = f[j] => i = j}

StoredRoles(u) == IF u \in DOMAIN dbRoles THEN dbRoles[u] ELSE {}

\* repo.GetUserRoles, then the subject.
GetUserRoles(p) ==
    /\ pc[p] = "GetUserRoles"
    /\ LET l == loc[p]
           u == l.req.user_id
       IN  \E ok \in BOOLEAN :
             /\ Call("GetUserRoles", ok)
             /\ IF ~ok
                THEN SendError(p, l, "Internal") /\ UNCHANGED nextJti
                ELSE \E roles \in RoleLists(StoredRoles(u)) :
                       EnterMint(p, [l EXCEPT !.subject = Subject(u, l.req.tenant_id, roles)])
    /\ UNCHANGED <<faultable, now, redisVars, dbVars, kmVars, verVars, nextTok, nreq, win>>

(***************************************************************************)
(* The user_roles parameter: strings.Split on ",", strings.TrimSpace, and  *)
(* the empty pieces dropped.  A string is a sequence of characters.        *)
(***************************************************************************)
RECURSIVE Split(_, _)
Split(str, sep) ==
    IF \E i \in 1..Len(str) : str[i] = sep
    THEN LET i == CHOOSE k \in 1..Len(str) :
                      str[k] = sep /\ \A j \in 1..(k - 1) : str[j] # sep
         IN  <<SubSeq(str, 1, i - 1)>> \o Split(SubSeq(str, i + 1, Len(str)), sep)
    ELSE <<str>>

RECURSIVE TrimSpace(_)
TrimSpace(str) ==
    IF str = <<>> THEN str
    ELSE IF str[1] = " " THEN TrimSpace(Tail(str))
    ELSE IF str[Len(str)] = " " THEN TrimSpace(SubSeq(str, 1, Len(str) - 1))
    ELSE str

\* The roles slice of handleUserProvisioning; <<>> is the nil slice.
ParseRoles(raw) ==
    IF raw = <<>>
    THEN <<>>
    ELSE LET parts == Split(raw, ",")
             trimmed == [i \in 1..Len(parts) |-> TrimSpace(parts[i])]
         IN  SelectSeq(trimmed, LAMBDA r : r # <<>>)

SeqToSet(sq) == {sq[i] : i \in 1..Len(sq)}

UpsertedRolesMerged(u, roles) ==
    IF roles # <<>> THEN Put(dbRoles, u, StoredRoles(u) \cup SeqToSet(roles)) ELSE dbRoles
\* The user_roles table after the transaction: when roles is not nil, DELETE
\* the rows of the user and INSERT one row a role, ON CONFLICT DO NOTHING.
UpsertedRoles(u, roles) ==
    IF roles # <<>> THEN Put(dbRoles, u, SeqToSet(roles)) ELSE dbRoles

UpsertUserAndRolesByEmail(p) ==
    /\ pc[p] = "UpsertUserAndRoles"
    /\ LET l == loc[p]
           u == l.req.user_id
           who == IF l.req.user_email # "" THEN l.req.user_email ELSE u
           roles == ParseRoles(l.req.user_roles)
           row == [tenant_id |-> l.req.tenant_id, full_name |-> l.req.user_full_name,
                   phone |-> l.req.user_phone, email |-> l.req.user_email]
       IN  \E ok \in BOOLEAN :
             /\ Call("UpsertUserAndRoles", ok)
             /\ IF ~ok
                THEN /\ SendError(p, l, "Internal")
                     /\ UNCHANGED <<dbUsers, dbRoles, nextJti>>
                ELSE /\ dbUsers' = Put(dbUsers, u, row)
                     /\ dbRoles' = UpsertedRoles(u, roles)
                     /\ IF roles = <<>>
                        THEN Goto(p, [l EXCEPT !.oldRoles = StoredRoles(u)], "GetUserRoles")
                             /\ UNCHANGED nextJti
                        ELSE EnterMint(p, [l EXCEPT !.oldRoles = StoredRoles(u),
                                                    !.subject = Subject(who, l.req.tenant_id, roles)])
    /\ UNCHANGED <<faultable, now, redisVars, dbClients, dbTenants, kmVars, verVars, nextTok, nreq, win>>
\* repo.UpsertUserAndRoles in its transaction, then the subject.
UpsertUserAndRoles(p) ==
    /\ pc[p] = "UpsertUserAndRoles"
    /\ LET l == loc[p]
           u == l.req.user_id
           roles == ParseRoles(l.req.user_roles)
           row == [tenant_id |-> l.req.tenant_id, full_name |-> l.req.user_full_name,
                   phone |-> l.req.user_phone, email |-> l.req.user_email]
       IN  \E ok \in BOOLEAN :
             /\ Call("UpsertUserAndRoles", ok)
             /\ IF ~ok
                THEN /\ SendError(p, l, "Internal")
                     /\ UNCHANGED <<dbUsers, dbRoles, nextJti>>
                ELSE /\ dbUsers' = Put(dbUsers, u, row)
                     /\ dbRoles' = UpsertedRoles(u, roles)
                     /\ IF roles = <<>>
                        THEN Goto(p, [l EXCEPT !.oldRoles = StoredRoles(u)], "GetUserRoles")
                             /\ UNCHANGED nextJti
                        ELSE EnterMint(p, [l EXCEPT !.oldRoles = StoredRoles(u),
                                                    !.subject = Subject(u, l.req.tenant_id, roles)])
    /\ UNCHANGED <<faultable, now, redisVars, dbClients, dbTenants, kmVars, verVars, nextTok, nreq, win>>

(***************************************************************************)
(* KeyManager.RotateKeys and CleanupExpiredKeys, each under the write lock.*)
(***************************************************************************)
RotateKeys ==
    /\ nextKid <= MaxKeys
    /\ \E generated \in BOOLEAN :
         IF generated
         THEN /\ keys' = RotatedKeys(gracePeriod)
              /\ currentKeyID' = nextKid
              /\ nextKid' = nextKid + 1
              /\ retired' = IF currentKeyID \in DOMAIN keys
                            THEN Put(retired, currentKeyID, now)
                            ELSE retired
         ELSE UNCHANGED <<keys, currentKeyID, nextKid, retired>>
    /\ UNCHANGED <<faultable, now, redisVars, dbVars, gracePeriod, verVars, genVars, pc, loc, nreq,
                   histVars, faults>>

CleanupExpiredKeys ==
    /\ keys' = CleanedKeys
    /\ UNCHANGED <<faultable, now, redisVars, dbVars, currentKeyID, nextKid, gracePeriod, retired,
                   verVars, genVars, pc, loc, nreq, histVars, faults>>

(***************************************************************************)
(* The operator's "make create-client": INSERT INTO clients ... ON         *)
(* CONFLICT (client_id) DO UPDATE SET client_secret_hash, rate_limit.      *)
(***************************************************************************)
\* The rate_limit the target writes (100 a minute), in the scale of the model.
CreatedRateLimit == 3
\* The secret the operator gives a client in place of GoodSecret.
NewSecret == "s2"

CreateClient(c, secret) ==
    /\ dbClients' = Put(dbClients, c,
                        [hash |-> BcryptHash(secret), rate_limit |-> CreatedRateLimit,
                         updated_at |-> IF c \in DOMAIN dbClients
                                        THEN dbClients[c].updated_at
                                        ELSE now])
    /\ UNCHANGED <<faultable, now, redisVars, dbTenants, dbUsers, dbRoles, kmVars, verVars, genVars,
                   pc, loc, nreq, histVars, faults>>

(***************************************************************************)
(* The scheduler of main: on every tick of its ticker, RotateKeys with the *)
(* grace period, whose error is logged, then CleanupExpiredKeys.           *)
(***************************************************************************)
\* for range ticker.C
SchedulerTick ==
    /\ pc[Scheduler] = "waiting"
    /\ nextKid <= MaxKeys
    /\ pc' = [pc EXCEPT ![Scheduler] = "RotateKeys"]
    /\ UNCHANGED <<faultable, now, redisVars, dbVars, kmVars, verVars, genVars, loc, nreq,
                   histVars, faults>>

\* if err := keyManager.RotateKeys(gracePeriod); err != nil { logger.Error }
SchedulerRotate ==
    /\ pc[Scheduler] = "RotateKeys"
    /\ \E generated \in BOOLEAN :
         IF generated
         THEN /\ keys' = RotatedKeys(gracePeriod)
              /\ currentKeyID' = nextKid
              /\ nextKid' = nextKid + 1
              /\ retired' = IF currentKeyID \in DOMAIN keys
                            THEN Put(retired, currentKeyID, now)
                            ELSE retired
         ELSE UNCHANGED <<keys, currentKeyID, nextKid, retired>>
    /\ pc' = [pc EXCEPT ![Scheduler] = "CleanupExpiredKeys"]
    /\ UNCHANGED <<faultable, now, redisVars, dbVars, gracePeriod, verVars, genVars, loc, nreq,
                   histVars, faults>>

\* keyManager.CleanupExpiredKeys(), then the next tick is awaited.
SchedulerCleanup ==
    /\ pc[Scheduler] = "CleanupExpiredKeys"
    /\ keys' = CleanedKeys
    /\ pc' = [pc EXCEPT ![Scheduler] = "waiting"]
    /\ UNCHANGED <<faultable, now, redisVars, dbVars, currentKeyID, nextKid, gracePeriod, retired,
                   verVars, genVars, loc, nreq, histVars, faults>>

(***************************************************************************)
(* Revocation of access tokens and TokenValidator.ValidateToken.           *)
(***************************************************************************)
\* cache.RevokeToken(jti, ttl): SET revoked:jti:<jti> with the TTL of the caller.
RevokeToken(jti, ttl) ==
    /\ \E ok \in BOOLEAN :
         /\ Call("RevokeToken", ok)
         /\ jrev' = IF ok THEN Put(jrev, jti, now + ttl) ELSE jrev
         /\ marked' = IF ok THEN Put(marked, jti, now + ttl) ELSE marked
    /\ UNCHANGED <<faultable, now, rt, rrev, rl, ccache, dbVars, kmVars, verdict, genVars, pc, loc, nreq,
                   histVars>>

NeverRevoked(jti) == FALSE
\* cache.IsTokenRevoked: EXISTS revoked:jti:<jti>
IsTokenRevoked(jti) == jti \in DOMAIN jrev

\* jwt.Parse has come through the keyfunc, the signature and the registered claims.
Parsed(tok) ==
    /\ tok.alg = "RS256"
    /\ tok.kid # NoKey
    /\ GetPublicKeyByID(tok.kid) # NoKey
    /\ tok.sig = GetPublicKeyByID(tok.kid)
    /\ now < tok.claims.exp

\* The validation reaches the revocation lookup.
ReachesLookup(tok) ==
    /\ Parsed(tok)
    /\ tok.claims.iss = JWTIssuer
    /\ tok.claims.aud = JWTAudience
    /\ ~(now > tok.claims.exp)
    /\ tok.claims.jti # 0

ValidateTokenFailOpen(tok, ok) ==
    IF tok.alg # "RS256" THEN "UnexpectedSigningMethod"
    ELSE IF tok.kid = NoKey THEN "MissingKid"
    ELSE IF GetPublicKeyByID(tok.kid) = NoKey THEN "UnknownKey"
    ELSE IF tok.sig # GetPublicKeyByID(tok.kid) THEN "InvalidSignature"
    ELSE IF ~(now < tok.claims.exp) THEN "Expired"
    ELSE IF tok.claims.iss # JWTIssuer THEN "InvalidIssuer"
    ELSE IF tok.claims.aud # JWTAudience THEN "InvalidAudience"
    ELSE IF now > tok.claims.exp THEN "Expired"
    ELSE IF tok.claims.jti = 0 THEN "Valid"
    ELSE IF ok /\ IsTokenRevoked(tok.claims.jti) THEN "Revoked"
    ELSE "Valid"
ValidateTokenWithFallback(tok, ok) ==
    LET pub == IF tok.kid = NoKey THEN GetPrivateKey ELSE GetPublicKeyByID(tok.kid)
    IN  IF pub = NoKey THEN "UnknownKey"
        ELSE IF tok.sig # pub THEN "InvalidSignature"
        ELSE IF ~(now < tok.claims.exp) THEN "Expired"
        ELSE IF tok.claims.iss # JWTIssuer THEN "InvalidIssuer"
        ELSE IF tok.claims.aud # JWTAudience THEN "InvalidAudience"
        ELSE IF tok.claims.jti = 0 THEN "Valid"
        ELSE IF ~ok THEN "RevocationCheckFailed"
        ELSE IF IsTokenRevoked(tok.claims.jti) THEN "Revoked"
        ELSE "Valid"
ValidateTokenExpInclusive(tok, ok) ==
    IF tok.alg # "RS256" THEN "UnexpectedSigningMethod"
    ELSE IF tok.kid = NoKey THEN "MissingKid"
    ELSE IF GetPublicKeyByID(tok.kid) = NoKey THEN "UnknownKey"
    ELSE IF tok.sig # GetPublicKeyByID(tok.kid) THEN "InvalidSignature"
    ELSE IF now > tok.claims.exp THEN "Expired"
    ELSE IF tok.claims.iss # JWTIssuer THEN "InvalidIssuer"
    ELSE IF tok.claims.aud # JWTAudience THEN "InvalidAudience"
    ELSE IF tok.claims.jti = 0 THEN "Valid"
    ELSE IF ~ok THEN "RevocationCheckFailed"
    ELSE IF IsTokenRevoked(tok.claims.jti) THEN "Revoked"
    ELSE "Valid"
\* The outcome of ValidateToken; ok is whether the revocation lookup answers.
ValidateToken(tok, ok) ==
    IF tok.alg # "RS256" THEN "UnexpectedSigningMethod"
    ELSE IF tok.kid = NoKey THEN "MissingKid"
    ELSE IF GetPublicKeyByID(tok.kid) = NoKey THEN "UnknownKey"
    ELSE IF tok.sig # GetPublicKeyByID(tok.kid) THEN "InvalidSignature"
    ELSE IF ~(now < tok.claims.exp) THEN "Expired"
    ELSE IF tok.claims.iss # JWTIssuer THEN "InvalidIssuer"
    ELSE IF tok.claims.aud # JWTAudience THEN "InvalidAudience"
    ELSE IF now > tok.claims.exp THEN "Expired"
    ELSE IF tok.claims.jti = 0 THEN "Valid"
    ELSE IF ~ok THEN "RevocationCheckFailed"
    ELSE IF IsTokenRevoked(tok.claims.jti) THEN "Revoked"
    ELSE "Valid"

\* The answer of HandleVerify with, as history, the header, the signature and
\* the tid of the token it was given.
NoVerdict == [kind |-> "none", valid |-> FALSE, tenant_id |-> "", jti |-> 0, kid |-> NoKey,
              at |-> 0, exp |-> 0, marker |-> NoTTL, claims |-> ClaimsView(NoClaims),
              alg |-> "", sig |-> NoKey, wellSigned |-> FALSE, hasTid |-> FALSE, tid |-> ""]

\* if tid, ok := claims["tid"].(string); ok { if tid != tenantIDFromPath { valid:false } }
TenantAccepted(claims, t) == claims.hasTid => claims.tid = t

\* The token has the RS256 header and a kid that resolves now, and its
\* signature is by the private key of that kid.
WellSigned(tok) ==
    /\ tok.alg = "RS256"
    /\ tok.kid # NoKey
    /\ KeyUsable(tok.kid, now)
    /\ tok.sig = keys[tok.kid].material

\* VerifyHandler.HandleVerify on path tenant t with the token tok in the body.
VerifyToken(tok, t) ==
    /\ \E ok \in BOOLEAN :
         /\ ok \/ ReachesLookup(tok)
         /\ Call("IsTokenRevoked", ok)
         /\ LET kind == ValidateToken(tok, ok)
            IN  verdict' = [kind |-> kind,
                            valid |-> kind = "Valid" /\ TenantAccepted(tok.claims, t),
                            tenant_id |-> t,
                            jti |-> tok.claims.jti,
                            kid |-> tok.kid,
                            at |-> now,
                            exp |-> tok.claims.exp,
                            marker |-> IF tok.claims.jti \in DOMAIN marked
                                       THEN marked[tok.claims.jti]
                                       ELSE NoTTL,
                            claims |-> IF kind = "Valid"
                                       THEN ClaimsView(tok.claims)
                                       ELSE ClaimsView(NoClaims),
                            alg |-> tok.alg,
                            sig |-> tok.sig,
                            wellSigned |-> WellSigned(tok),
                            hasTid |-> tok.claims.hasTid,
                            tid |-> tok.claims.tid]
    /\ UNCHANGED <<faultable, now, redisVars, dbVars, kmVars, marked, genVars, pc, loc, nreq,
                   histVars>>

\* The access token request p holds is presented on path tenant t.
HandleVerify(p, t) ==
    /\ ~loc[p].token.isNil
    /\ VerifyToken(loc[p].token, t)

\* The algorithms a token header can name.
Algs == {"RS256", "HS256", "none"}

\* Tokens built outside GenerateAccessToken and signed with the private key
\* of the KeyManager, as the tests of the validator build them: the header
\* with or without the kid, any alg, and claims with or without the tid and
\* with an expiry of the caller's choice; the other claims are those of tok.
Crafted(tok) ==
    {[isNil |-> FALSE, alg |-> a, kid |-> k, sig |-> GetPrivateKey,
      claims |-> [tok.claims EXCEPT !.hasTid = h,
                                    !.tid = IF h THEN tok.claims.tid ELSE "",
                                    !.exp = e]] :
        a \in Algs, k \in {tok.kid, NoKey}, h \in BOOLEAN,
        e \in {tok.claims.iat + 1, tok.claims.exp}}

\* A crafted variant of the token request p holds is presented on path tenant t.
HandleVerifyCrafted(p, t) ==
    /\ ~loc[p].token.isNil
    /\ \E tok \in Crafted(loc[p].token) : VerifyToken(tok, t)

(***************************************************************************)
(* The state after start-up: the tenants, the clients and one user are     *)
(* provisioned, the KeyManager holds the configured key, and Redis is      *)
(* empty or holds one record written before the handler stored subjects.   *)
(***************************************************************************)
LegacyRecord == [client_id |-> "c2", subject |-> NilSubject,
                 expires_at |-> RefreshTokenExpiry, exp |-> RefreshTokenExpiry]

InitStores ==
    /\ now = 0
    /\ rrev = EmptyMap
    /\ jrev = EmptyMap
    /\ rl = EmptyMap
    /\ ccache = EmptyMap
    /\ dbClients = [c \in ClientIDs |->
                      [hash |-> BcryptHash(GoodSecret),
                       rate_limit |-> IF c = "c1" THEN 1 ELSE 3,
                       updated_at |-> 0]]
    /\ dbTenants = Tenants
    /\ dbUsers = Put(EmptyMap, "u1", [tenant_id |-> "T1", full_name |-> "n", phone |-> "p",
                                      email |-> ""])
    /\ dbRoles = Put(EmptyMap, "u1", {<<"a">>})
    /\ nextTok = 1
    /\ nextJti = 1
    /\ pc = [p \in Procs \cup {Scheduler} |-> IF p = Scheduler THEN "waiting" ELSE "idle"]
    /\ loc = [p \in Procs |-> InitLoc]
    /\ nreq = 0
    /\ okCount = [t \in 0..(MaxTok + 2) |-> 0]
    /\ origin = EmptyMap
    /\ win = [c \in ClientIDs |-> [start |-> -1, passed |-> 0, granted |-> 0]]
    /\ faults = 0

InitKeys ==
    /\ keys = Put(EmptyMap, 1, NewKeyPair(1))
    /\ currentKeyID = 1
    /\ nextKid = 2
    /\ retired = EmptyMap
    /\ verdict = NoVerdict
    /\ marked = EmptyMap

ClientCredentials(t, c, sec, u) ==
    [NoReq EXCEPT !.grant_type = "client_credentials", !.tenant_id = t, !.client_id = c,
                  !.client_secret = sec, !.user_id = u]
ProvisionUser(t, c, sec, u, name, phone, roles) ==
    [NoReq EXCEPT !.grant_type = "provision_user", !.tenant_id = t, !.client_id = c,
                  !.client_secret = sec, !.user_id = u, !.user_full_name = name,
                  !.user_phone = phone, !.user_roles = roles]
RefreshToken(t, tok) ==
    [NoReq EXCEPT !.grant_type = "refresh_token", !.tenant_id = t, !.refresh_token = tok]

\* The tokens a caller can present: the ones issued so far, "", and two others.
Presentable == (1..(nextTok - 1)) \cup {EmptyTok, BogusTok, LegacyTok}

RefreshSteps(p) ==
    \/ GetRefreshToken(p)
    \/ IsRefreshTokenRevoked(p)
    \/ RefreshGetClient(p)
    \/ RevokeRefreshToken(p)
    \/ DeleteRefreshToken(p)

SharedSteps(p) ==
    \/ Incr(p)
    \/ Expire(p)
    \/ ReadCurrentKeyID(p)
    \/ SignAccessToken(p)
    \/ StoreRefreshToken(p)

\* The store calls of handleClientCredentials.
CredentialSteps(p) ==
    \/ GetClient(p)
    \/ GetClientByID(p)
    \/ SetClient(p)
    \/ EnsureTenantExists(p)
    \/ GetUserByID(p)
    \/ GetUserRoles(p)
    \/ UpdateClientUpdatedAt(p)

\* Those of handleUserProvisioning as well.
PrimarySteps(p) ==
    \/ CredentialSteps(p)
    \/ UpsertUserAndRoles(p)

(***************************************************************************)
(* SpecSeq: one request at a time; the three grants with their failing     *)
(* inputs, the store faults and the clock.                                 *)
(***************************************************************************)
InitSeq ==
    /\ InitStores
    /\ InitKeys
    /\ gracePeriod = 1
    /\ faultable = StoreCalls
    /\ rt \in {EmptyMap, Put(EmptyMap, LegacyTok, LegacyRecord)}

\* The clock moves between two requests.
TickQuiet ==
    /\ \A p \in Procs : pc[p] \in {"idle", "done"}
    /\ Tick

SeqRequests ==
    {ClientCredentials(t, "c2", GoodSecret, u) : t \in Tenants, u \in {"u1", ""}}
    \cup {ProvisionUser("T1", "c2", GoodSecret, "u1", "n", "p", <<"r">>)}
    \cup {RefreshToken(t, tok) : t \in Tenants, tok \in Presentable}

NextSeq ==
    \/ TickQuiet
    \/ \E r \in SeqRequests : HandleToken("p1", r)
    \/ RefreshSteps("p1")
    \/ SharedSteps("p1")
    \/ PrimarySteps("p1")

SpecSeq == InitSeq /\ [][NextSeq]_vars

(***************************************************************************)
(* Spec: requests in parallel.  A primary grant runs alone; refresh        *)
(* requests run in parallel with each other, their store calls interleaved.*)
(***************************************************************************)
Init ==
    /\ InitStores
    /\ InitKeys
    /\ gracePeriod = 1
    /\ faultable = RefreshCalls
    /\ rt = EmptyMap

\* The requests are interchangeable: a request that starts while no other
\* is in flight is the request of p1.
FirstFree(p) == p = "p2" => pc["p1"] \notin {"idle", "done"}

Quiet(p) == \A q \in Procs \ {p} : pc[q] \in {"idle", "done"}
Refreshing(p) ==
    \A q \in Procs \ {p} : pc[q] \in {"idle", "done"} \/ loc[q].req.grant_type = "refresh_token"

Requests(p) ==
    (IF Quiet(p)
     THEN {ClientCredentials("T1", "c2", GoodSecret, "u1")}
     ELSE {})
    \cup (IF Refreshing(p)
          THEN {RefreshToken(t, tok) : t \in Tenants, tok \in Presentable}
          ELSE {})

Next ==
    \/ TickQuiet
    \/ \E p \in Procs :
         \/ /\ FirstFree(p)
            /\ \E r \in Requests(p) : HandleToken(p, r)
         \/ RefreshSteps(p)
         \/ SharedSteps(p)
         \/ CredentialSteps(p)

Spec == Init /\ [][Next]_vars

(***************************************************************************)
(* SpecKeys: client_credentials grants of one user, one at a time, with    *)
(* the key rotation, the cleanup, revocations and verifications at any     *)
(* point of a grant.  The grace period is 1 tick or JWTExpiry ticks.       *)
(***************************************************************************)
InitKeyRotation ==
    /\ InitStores
    /\ InitKeys
    /\ gracePeriod \in {1, JWTExpiry}
    /\ faultable = {"IsTokenRevoked"}
    /\ rt = EmptyMap

\* The steps of a grant before GenerateAccessToken neither read nor write the
\* KeyManager or the revocation markers: a key operation during them is the
\* same operation before the grant.
BeforeMint(p) == pc[p] \notin {"idle", "done", "GetCurrentKeyID", "GetPrivateKey",
                               "StoreRefreshToken", "UpdateClientUpdatedAt"}

NextKeys ==
    \/ TickQuiet
    \/ /\ nextJti <= MaxMints
       /\ HandleToken("p1", ClientCredentials("T1", "c2", GoodSecret, "u1"))
    \/ CredentialSteps("p1")
    \/ SharedSteps("p1")
    \/ ~BeforeMint("p1") /\ RotateKeys
    \/ ~BeforeMint("p1") /\ CleanupExpiredKeys
    \/ \E t \in Tenants : HandleVerify("p1", t)

SpecKeys == InitKeyRotation /\ [][NextKeys]_vars

(***************************************************************************)
(* SpecRevoke: a client_credentials grant, then revocations of its access  *)
(* token, with the TTL the caller of RevokeToken chooses, and              *)
(* verifications, as time passes.                                          *)
(***************************************************************************)
InitRevoke ==
    /\ InitStores
    /\ InitKeys
    /\ gracePeriod = 1
    /\ faultable = {"RevokeToken", "IsTokenRevoked"}
    /\ rt = EmptyMap

NextRevoke ==
    \/ TickQuiet
    \/ /\ nextJti <= MaxMints
       /\ HandleToken("p1", ClientCredentials("T1", "c2", GoodSecret, "u1"))
    \/ CredentialSteps("p1")
    \/ SharedSteps("p1")
    \/ \E ttl \in 1..JWTExpiry :
         /\ ~loc["p1"].token.isNil
         /\ RevokeToken(loc["p1"].token.claims.jti, ttl)
    \/ \E t \in Tenants : HandleVerify("p1", t)

SpecRevoke == InitRevoke /\ [][NextRevoke]_vars

(***************************************************************************)
(* SpecVerify: a client_credentials grant, then verifications, on either   *)
(* path tenant and as time passes, of its access token and of the tokens   *)
(* crafted from it.  The key is not rotated and no token is revoked.       *)
(***************************************************************************)
InitVerify ==
    /\ InitStores
    /\ InitKeys
    /\ gracePeriod = 1
    /\ faultable = {"IsTokenRevoked"}
    /\ rt = EmptyMap

NextVerify ==
    \/ TickQuiet
    \/ /\ nextJti <= MaxMints
       /\ HandleToken("p1", ClientCredentials("T1", "c2", GoodSecret, "u1"))
    \/ CredentialSteps("p1")
    \/ SharedSteps("p1")
    \/ \E t \in Tenants : HandleVerify("p1", t)
    \/ \E t \in Tenants : HandleVerifyCrafted("p1", t)

SpecVerify == InitVerify /\ [][NextVerify]_vars

(***************************************************************************)
(* SpecRate: the three grants of client c1, whose rate limit is 1, two     *)
(* requests at a time, their steps interleaved with each other and with    *)
(* the clock.                                                              *)
(***************************************************************************)
InitRate ==
    /\ InitStores
    /\ InitKeys
    /\ gracePeriod = 1
    /\ faultable = {"Incr", "Expire"}
    /\ rt = EmptyMap

RateRequests ==
    {ClientCredentials("T1", "c1", GoodSecret, "u1"),
     ProvisionUser("T1", "c1", GoodSecret, "u1", "n", "p", <<>>)}
    \cup {RefreshToken("T1", tok) : tok \in 1..(nextTok - 1)}

\* A request stalls between INCR and EXPIRE, or once the limiter has let it
\* through; the clock moves then, and when no request is in flight.
Stalled(p) == pc[p] \in {"idle", "done", "Expire", "EnsureTenantExists", "RevokeRefreshToken"}

TickStalled ==
    /\ \A p \in Procs : Stalled(p)
    /\ Tick

NextRate ==
    \/ TickStalled
    \/ \E p \in Procs :
         \/ /\ FirstFree(p)
            /\ \E r \in RateRequests : HandleToken(p, r)
         \/ RefreshSteps(p)
         \/ SharedSteps(p)
         \/ PrimarySteps(p)

SpecRate == InitRate /\ [][NextRate]_vars

(***************************************************************************)
(* SpecGrant: the primary grants one at a time, with every input one of    *)
(* their checks refuses, the values of user_roles, and rotations of the    *)
(* tokens they issue.  The client cache may fail to answer.                *)
(***************************************************************************)
InitGrant ==
    /\ InitStores
    /\ InitKeys
    /\ gracePeriod = 1
    /\ faultable = {"GetClient", "SetClient"}
    /\ rt = EmptyMap

\* The values of the user_roles parameter: absent, "r", "r, s", "," and " ".
RoleParams == {<<>>, <<"r">>, <<"r", ",", " ", "s">>, <<",">>, <<" ">>}

\* The first request of a run is any of the primary grants below; the
\* requests after it are client_credentials grants of u1, one without
\* user_id by the client of limit 1, and rotations.
GrantRequests ==
    (IF nreq < 1
     THEN {ClientCredentials(t, "c2", GoodSecret, u) :
              t \in Tenants \cup {"T3"}, u \in {"u1", "u2", ""}}
          \cup {ClientCredentials("T1", c, sec, "u1") :
                  c \in {"c2", "c0", ""}, sec \in {GoodSecret, "bad", ""}}
          \cup {ClientCredentials("T1", "c1", sec, u) : sec \in {GoodSecret, "bad"}, u \in {"u1", ""}}
          \cup {ProvisionUser("T1", "c2", GoodSecret, "u1", "n", "p", raw) : raw \in RoleParams}
          \cup {ProvisionUser(t, "c2", GoodSecret, u, "n", "p", <<"r">>) :
                  t \in {"T2", "T3"}, u \in {"u1", "u2"}}
          \cup {ProvisionUser("T1", "c2", GoodSecret, "u2", name, "p", <<"r">>) : name \in {"", "n"}}
     ELSE {ClientCredentials(t, "c2", GoodSecret, "u1") : t \in Tenants}
          \cup {ClientCredentials("T1", "c1", GoodSecret, "")})
    \cup {RefreshToken("T1", tok) : tok \in 1..(nextTok - 1)}

NextGrant ==
    \/ TickQuiet
    \/ \E r \in GrantRequests : HandleToken("p1", r)
    \/ RefreshSteps("p1")
    \/ SharedSteps("p1")
    \/ PrimarySteps("p1")

SpecGrant == InitGrant /\ [][NextGrant]_vars

(***************************************************************************)
(* SpecSched: the scheduler, the clock and one client_credentials grant.   *)
(* The goroutine of the scheduler is never starved: a rotation or a        *)
(* cleanup it has reached is carried out.                                  *)
(***************************************************************************)
InitSched ==
    /\ InitStores
    /\ InitKeys
    /\ gracePeriod \in {1, JWTExpiry}
    /\ faultable = {}
    /\ rt = EmptyMap

NextSched ==
    \/ TickQuiet
    \/ SchedulerTick
    \/ SchedulerRotate
    \/ SchedulerCleanup
    \/ /\ nextJti <= MaxMints
       /\ HandleToken("p1", ClientCredentials("T1", "c2", GoodSecret, "u1"))
    \/ CredentialSteps("p1")
    \/ SharedSteps("p1")

SpecSched ==
    /\ InitSched
    /\ [][NextSched]_vars
    /\ WF_vars(SchedulerRotate)
    /\ WF_vars(SchedulerCleanup)

(***************************************************************************)
(* SpecClients: the grants of client c2, one at a time, with the old and   *)
(* the new secret, and those of client c1 and the rotations of the tokens  *)
(* issued, while the operator replaces the secret and the rate limit of a  *)
(* client between two requests and the clock moves.                        *)
(***************************************************************************)
InitClients ==
    /\ InitStores
    /\ InitKeys
    /\ gracePeriod = 1
    /\ faultable = {"GetClient", "SetClient"}
    /\ rt = EmptyMap

ClientRequests ==
    {ClientCredentials("T1", "c2", sec, "u1") : sec \in {GoodSecret, NewSecret}}
    \cup {ProvisionUser("T1", "c2", sec, "u1", "n", "p", <<>>) : sec \in {GoodSecret, NewSecret}}
    \cup {ClientCredentials("T1", "c1", GoodSecret, "u1")}
    \cup {RefreshToken("T1", tok) : tok \in 1..(nextTok - 1)}

NextClients ==
    \/ TickQuiet
    \/ /\ \A p \in Procs : pc[p] \in {"idle", "done"}
       /\ \/ \E sec \in {GoodSecret, NewSecret} : CreateClient("c2", sec)
          \/ CreateClient("c1", GoodSecret)
    \/ \E r \in ClientRequests : HandleToken("p1", r)
    \/ RefreshSteps("p1")
    \/ SharedSteps("p1")
    \/ PrimarySteps("p1")

SpecClients == InitClients /\ [][NextClients]_vars

(***************************************************************************)
(* SpecRejected: the grants of client c1, whose rate limit is 1, and of    *)
(* client c2, and the rotations of any token on either tenant, one request *)
(* at a time, with the store faults and the clock.                         *)
(***************************************************************************)
RejectedRequests ==
    {ClientCredentials("T1", c, GoodSecret, "u1") : c \in ClientIDs}
    \cup {RefreshToken(t, tok) : t \in Tenants, tok \in Presentable}

NextRejected ==
    \/ TickQuiet
    \/ \E r \in RejectedRequests : HandleToken("p1", r)
    \/ RefreshSteps("p1")
    \/ SharedSteps("p1")
    \/ CredentialSteps("p1")

SpecRejected == InitSeq /\ [][NextRejected]_vars

(***************************************************************************)
(* SpecTenants: user u1 is provisioned under either tenant, asks for       *)
(* tokens and rotates them on either tenant, one request at a time.        *)
(***************************************************************************)
TenantRequests ==
    {ClientCredentials(t, "c2", GoodSecret, "u1") : t \in Tenants}
    \cup {ProvisionUser(t, "c2", GoodSecret, "u1", "n", "p", <<"r">>) : t \in Tenants}
    \cup {RefreshToken(t, tok) : t \in Tenants, tok \in 1..(nextTok - 1)}

NextTenants ==
    \/ TickQuiet
    \/ \E r \in TenantRequests : HandleToken("p1", r)
    \/ RefreshSteps("p1")
    \/ SharedSteps("p1")
    \/ PrimarySteps("p1")

SpecTenants == InitGrant /\ [][NextTenants]_vars

(***************************************************************************)
(* SpecProfile: provision_user requests for user u1 on tenant T1 with the  *)
(* roles "r", one at a time, that differ in user_full_name, user_phone and *)
(* user_email only.                                                        *)
(***************************************************************************)
ProfileRequests ==
    {[ProvisionUser("T1", "c2", GoodSecret, "u1", name, phone, <<"r">>) EXCEPT !.user_email = email] :
        name \in {"n", "m"}, phone \in {"p", "q"}, email \in {"", "e"}}

NextProfile ==
    \/ TickQuiet
    \/ \E r \in ProfileRequests : HandleToken("p1", r)
    \/ GetClient("p1")
    \/ GetClientByID("p1")
    \/ SetClient("p1")
    \/ EnsureTenantExists("p1")
    \/ UpsertUserAndRoles("p1")
    \/ UpdateClientUpdatedAt("p1")
    \/ SharedSteps("p1")

SpecProfile == InitGrant /\ [][NextProfile]_vars

(***************************************************************************)
(* SpecLookups: grants and rotations one at a time, revocations and        *)
(* verifications of the access token in hand, while the lookups of the two *)
(* revocation markers, and the deletion of a rotated record, can fail.     *)
(***************************************************************************)
InitLookups ==
    /\ InitStores
    /\ InitKeys
    /\ gracePeriod = 1
    /\ faultable = {"IsTokenRevoked", "IsRefreshTokenRevoked", "DeleteRefreshToken"}
    /\ rt = EmptyMap

NextLookups ==
    \/ TickQuiet
    \/ HandleToken("p1", ClientCredentials("T1", "c2", GoodSecret, "u1"))
    \/ \E tok \in 1..(nextTok - 1) : HandleToken("p1", RefreshToken("T1", tok))
    \/ RefreshSteps("p1")
    \/ SharedSteps("p1")
    \/ CredentialSteps("p1")
    \/ /\ pc["p1"] = "done"
       /\ ~loc["p1"].token.isNil
       /\ RevokeToken(loc["p1"].token.claims.jti, JWTExpiry)
    \/ /\ pc["p1"] = "done"
       /\ \E t \in Tenants : HandleVerify("p1", t)

SpecLookups == InitLookups /\ [][NextLookups]_vars

(***************************************************************************)
(* Properties of the refresh grant.                                        *)
(***************************************************************************)
Done(p) == pc[p] = "done"
IsRefresh(p) == loc[p].req.grant_type = "refresh_token"
Issued(p) == ~loc[p].token.isNil \/ loc[p].newTok # EmptyTok
\* The positions of a request that is minting or has minted.
MintSteps == {"RevokeRefreshToken", "DeleteRefreshToken", "GetCurrentKeyID", "GetPrivateKey",
              "StoreRefreshToken", "UpdateClientUpdatedAt"}

\* C1: a refresh request that presents a token on which an earlier refresh
\* request has already succeeded never succeeds: it gets no new pair.
C1_SingleUse ==
    \A p \in Procs : (Done(p) /\ IsRefresh(p) /\ loc[p].replay) => loc[p].result # "OK"

\* C2: two refresh requests in flight together that present the same token
\* do not both succeed, here with every store call answering.
C2_NotBoth ==
    \A p, q \in Procs :
      (p # q /\ faults = 0 /\ Done(p) /\ Done(q) /\ IsRefresh(p) /\ IsRefresh(q)
       /\ loc[p].req.refresh_token = loc[q].req.refresh_token
       /\ ~loc[p].replay /\ ~loc[q].replay)
      => ~(loc[p].result = "OK" /\ loc[q].result = "OK")

\* The request of p presents, on another path tenant, a token issued to a
\* subject of some tenant, or a token whose record has no subject.
CrossTenant(p) ==
    /\ IsRefresh(p)
    /\ LET tok == loc[p].req.refresh_token
       IN  \/ tok = LegacyTok
           \/ tok \in DOMAIN origin /\ origin[tok].subject.tenant_id # loc[p].req.tenant_id

\* C3 (as stated): a cross-tenant refresh always ends with InvalidRefreshToken.
C3_AlwaysInvalidRefreshToken ==
    \A p \in Procs : (Done(p) /\ CrossTenant(p)) => loc[p].result = "InvalidRefreshToken"

\* C3: a cross-tenant refresh never reaches the rotation, issues nothing, and
\* ends with InvalidRefreshToken, or with Internal after a failed store call.
C3_CrossTenantRejected ==
    \A p \in Procs :
      (pc[p] # "idle" /\ CrossTenant(p))
      => /\ pc[p] \notin MintSteps
         /\ ~Issued(p)
         /\ Done(p) => /\ loc[p].result \in {"InvalidRefreshToken", "Internal"}
                        /\ faults = 0 => loc[p].result = "InvalidRefreshToken"

C3_Witness ==
    \E p \in Procs :
      /\ Done(p) /\ CrossTenant(p)
      /\ loc[p].req.refresh_token \in DOMAIN origin
      /\ loc[p].req.refresh_token \in DOMAIN rt
      /\ loc[p].result = "InvalidRefreshToken"

\* C4: every refresh-token record that descends from a primary grant carries
\* the client and the subject of the record of that grant, and the access
\* token of a rotation carries the claims of the first access token.
C4_SubjectPreserved ==
    /\ \A t \in DOMAIN rt \cap DOMAIN origin :
          /\ rt[t].client_id = origin[t].client_id
          /\ rt[t].subject = origin[t].subject
    /\ \A p \in Procs :
          (Done(p) /\ IsRefresh(p) /\ loc[p].result = "OK")
          => /\ loc[p].newTok \in DOMAIN origin
             /\ ClaimsView(loc[p].token.claims) = origin[loc[p].newTok].claims

\* A rotation has succeeded after the roles of its user were replaced.
C4_Witness ==
    \E p \in Procs :
      /\ Done(p) /\ IsRefresh(p) /\ loc[p].result = "OK"
      /\ loc[p].newTok \in DOMAIN rt
      /\ SeqToSet(loc[p].subject.roles) # StoredRoles(loc[p].subject.user_id)

\* C5: an issued access token carries the path tenant of its request as tid
\* and a non-empty sub, equal to oid and to the user of the subject.
C5_UserAndTenantScoped ==
    \A p \in Procs :
      ~loc[p].token.isNil
      => /\ loc[p].token.claims.tid = loc[p].req.tenant_id
         /\ loc[p].token.claims.sub # ""
         /\ loc[p].token.claims.sub = loc[p].token.claims.oid
         /\ loc[p].token.claims.sub = loc[p].subject.user_id
         /\ loc[p].req.grant_type # "refresh_token"
            => loc[p].token.claims.sub = loc[p].req.user_id

C5_Witness ==
    \E p \in Procs :
      /\ Done(p) /\ loc[p].result = "OK"
      /\ loc[p].req.grant_type = "provision_user"
      /\ ~loc[p].token.isNil

(***************************************************************************)
(* Properties of the keys, of the verification and of the revocation.      *)
(***************************************************************************)
Verified(p) ==
    /\ ~loc[p].token.isNil
    /\ verdict.kind # "none"
    /\ verdict.jti = loc[p].token.claims.jti

\* C6: a token GenerateAccessToken has returned, verified at once, with no
\* revocation marker and the revocation lookup answering, is accepted, and
\* the claims returned are the fields of the subject.
C6_MintThenVerify ==
    \A p \in Procs :
      (Verified(p) /\ verdict.at = loc[p].token.claims.iat
       /\ verdict.marker = NoTTL /\ verdict.kind # "RevocationCheckFailed")
      => /\ verdict.kind = "Valid"
         /\ verdict.claims.sub = loc[p].subject.user_id
         /\ verdict.claims.tid = loc[p].subject.tenant_id
         /\ verdict.claims.roles = loc[p].subject.roles
         /\ verdict.claims.scp = loc[p].subject.scopes
         /\ verdict.claims.hasRoles <=> loc[p].subject.roles # <<>>
         /\ verdict.claims.hasScp <=> loc[p].subject.scopes # <<>>

\* The key of the header of the token of p is in the JWKS view and resolves.
KeyServed(p) ==
    /\ loc[p].token.kid \in GetJWKSet
    /\ GetPublicKeyByID(loc[p].token.kid) # NoKey

\* C7 (as stated): the key of an issued token is served at every instant
\* before the exp of the token, whatever the grace period of the rotations.
C7_KeyServedUntilExp ==
    \A p \in Procs :
      (~loc[p].token.isNil /\ now < loc[p].token.claims.exp) => KeyServed(p)

\* C7: when the grace period of the rotations is at least the access-token
\* lifetime, the key of an issued token is served from issuance to its exp.
C7_KeyServedWhenGraceCoversTTL ==
    gracePeriod >= JWTExpiry
    => \A p \in Procs :
         (~loc[p].token.isNil /\ now <= loc[p].token.claims.exp) => KeyServed(p)

\* The key of the token was superseded, by a key that was superseded in its
\* turn, and the token is at its exp.
C7_Witness ==
    \E p \in Procs :
      /\ gracePeriod >= JWTExpiry
      /\ ~loc[p].token.isNil
      /\ loc[p].token.kid \in DOMAIN retired
      /\ Cardinality(DOMAIN retired) > 1
      /\ now = loc[p].token.claims.exp
      /\ KeyServed(p)

\* C8: a superseded key resolves at every time up to the rotation time plus
\* the grace period and at no time after it, cleaned up or not; a
\* verification after it ends with the unknown-key error.
C8_VerifyAfterRotation ==
    /\ \A k \in DOMAIN retired :
          /\ now <= retired[k] + gracePeriod => GetPublicKeyByID(k) # NoKey
          /\ now > retired[k] + gracePeriod => GetPublicKeyByID(k) = NoKey
    /\ (verdict.kind # "none" /\ verdict.kid \in DOMAIN retired)
       => /\ verdict.at > retired[verdict.kid] + gracePeriod => verdict.kind = "UnknownKey"
          /\ verdict.at <= retired[verdict.kid] + gracePeriod => verdict.kind # "UnknownKey"

\* A token not yet expired is refused for its key, which is still in the map.
C8_Witness ==
    /\ verdict.kind = "UnknownKey"
    /\ verdict.at < verdict.exp
    /\ verdict.kid \in DOMAIN retired
    /\ verdict.kid \in DOMAIN keys

C12_OnlyRS256WithKid ==
    (verdict.kind # "none" /\ (verdict.alg # "RS256" \/ verdict.kid = NoKey))
    => /\ ~verdict.valid
       /\ verdict.claims = ClaimsView(NoClaims)
       /\ verdict.kind \in {"UnexpectedSigningMethod", "MissingKid"}

\* An unexpired RS256 token without kid, signed by the current key, is refused.
C12_Witness ==
    /\ verdict.kind = "MissingKid"
    /\ verdict.alg = "RS256"
    /\ verdict.sig = GetPrivateKey
    /\ verdict.at < verdict.exp

\* C13: the verify endpoint on path tenant T answers valid:true only for a
\* token that passes ValidateToken and carries a tid claim equal to T.
C13_TenantScoped ==
    (verdict.kind # "none" /\ verdict.valid)
    => /\ verdict.kind = "Valid"
       /\ verdict.hasTid
       /\ verdict.tid = verdict.tenant_id

\* C14: a token with the RS256 header, signed by the key its kid resolves
\* to and without a revocation marker, is accepted at every time before its
\* exp (the revocation lookup answering) and is refused as expired at its
\* exp and at every later time.
C14_ExpExclusive ==
    (verdict.kind # "none" /\ verdict.wellSigned /\ verdict.marker = NoTTL)
    => /\ verdict.at < verdict.exp => verdict.kind \in {"Valid", "RevocationCheckFailed"}
       /\ (verdict.at < verdict.exp /\ faults = 0) => verdict.kind = "Valid"
       /\ verdict.at >= verdict.exp => (verdict.kind = "Expired" /\ ~verdict.valid)

\* A token accepted one tick before its exp is refused at its exp.
C14_Witness ==
    /\ verdict.kind = "Expired"
    /\ verdict.wellSigned
    /\ verdict.at = verdict.exp

(***************************************************************************)
(* Properties of the primary grants.                                       *)
(***************************************************************************)
IsCC(p) == loc[p].req.grant_type = "client_credentials"
IsProvision(p) == loc[p].req.grant_type = "provision_user"
\* The positions of a request from GenerateAccessToken to the response.
Minting == {"GetCurrentKeyID", "GetPrivateKey", "StoreRefreshToken", "UpdateClientUpdatedAt"}

\* Checks (1) to (3) on the request r, by the clients table.
Authenticated(r) ==
    /\ r.client_id # "" /\ r.client_secret # ""
    /\ r.client_id \in DOMAIN dbClients
    /\ dbClients[r.client_id].hash = BcryptHash(r.client_secret)

\* Check (4) for a request whose INCR returned count.
WithinLimit(r, count) == count >= 1 /\ count <= dbClients[r.client_id].rate_limit

\* The error of the first of the eight checks that fails for the
\* client_credentials request r whose INCR returned count, or "OK".
FirstFailure(r, count) ==
    IF ~Authenticated(r) THEN "InvalidCredentials"
    ELSE IF ~WithinLimit(r, count) THEN "RateLimitExceeded"
    ELSE IF r.user_id = "" THEN "InvalidRequest"
    ELSE IF r.tenant_id \notin dbTenants THEN "InvalidRequest"
    ELSE IF r.user_id \notin DOMAIN dbUsers THEN "InvalidRequest"
    ELSE IF dbUsers[r.user_id].tenant_id # r.tenant_id THEN "InvalidRequest"
    ELSE "OK"

\* C15: a client_credentials request, the persistent store and the limiter
\* answering, ends with the error of the first check that fails, in the
\* order of the eight checks; one refused for its credentials has not been
\* counted by the limiter; and a request mints and stores a refresh-token
\* record only when the eight checks pass.
C15_FirstFailureWins ==
    \A p \in Procs :
      IsCC(p)
      => /\ Done(p) => loc[p].result = FirstFailure(loc[p].req, loc[p].count)
         /\ (Done(p) /\ loc[p].result = "InvalidCredentials") => loc[p].count = 0
         /\ (pc[p] \in Minting \/ Issued(p)) => FirstFailure(loc[p].req, loc[p].count) = "OK"

\* A request without user_id, over the limit of its client, is answered by the limiter.
C15_Witness ==
    \E p \in Procs :
      /\ Done(p) /\ IsCC(p)
      /\ loc[p].req.user_id = ""
      /\ loc[p].result = "RateLimitExceeded"

\* The request of p has passed checks (1) to (6).
ReachedUserCheck(p) ==
    /\ Authenticated(loc[p].req)
    /\ WithinLimit(loc[p].req, loc[p].count)
    /\ loc[p].req.user_id # ""
    /\ loc[p].req.tenant_id \in dbTenants

\* C16: a client_credentials request on path tenant T for user U mints only
\* when U is in the users table with tenant_id T, and the roles of its token
\* are the roles stored for U; a request that reaches the check while U is
\* unknown or of another tenant ends with InvalidRequest.
C16_NeverCrossesTenants ==
    \A p \in Procs :
      IsCC(p)
      => LET u == loc[p].req.user_id
             tok == loc[p].token
         IN  /\ (pc[p] \in Minting \/ Issued(p))
                => (u \in DOMAIN dbUsers /\ dbUsers[u].tenant_id = loc[p].req.tenant_id)
             /\ ~tok.isNil
                => /\ SeqToSet(tok.claims.roles) = StoredRoles(u)
                   /\ Len(tok.claims.roles) = Cardinality(StoredRoles(u))
                   /\ tok.claims.hasRoles <=> StoredRoles(u) # {}
             /\ (Done(p) /\ ReachedUserCheck(p)
                 /\ (u \notin DOMAIN dbUsers \/ dbUsers[u].tenant_id # loc[p].req.tenant_id))
                => loc[p].result = "InvalidRequest"

\* A request for a user of another tenant is refused at the user check.
C16_Witness ==
    \E p \in Procs :
      /\ Done(p) /\ IsCC(p) /\ ReachedUserCheck(p)
      /\ loc[p].req.user_id \in DOMAIN dbUsers
      /\ dbUsers[loc[p].req.user_id].tenant_id # loc[p].req.tenant_id
      /\ loc[p].result = "InvalidRequest"

\* C17: after a provision_user request has succeeded with the roles list R,
\* not nil, the roles stored for the user are the elements of R and nothing
\* else, and the roles claim of the access token is R.
C17_RolesReplaced ==
    \A p \in Procs :
      (Done(p) /\ IsProvision(p) /\ loc[p].result = "OK"
       /\ ParseRoles(loc[p].req.user_roles) # <<>>)
      => LET R == ParseRoles(loc[p].req.user_roles)
         IN  /\ StoredRoles(loc[p].req.user_id) = SeqToSet(R)
             /\ loc[p].token.claims.hasRoles
             /\ loc[p].token.claims.roles = R

\* Two roles have replaced a role that is not one of them.
C17_Witness ==
    \E p \in Procs :
      /\ Done(p) /\ IsProvision(p) /\ loc[p].result = "OK"
      /\ Len(ParseRoles(loc[p].req.user_roles)) = 2
      /\ loc[p].oldRoles # {}
      /\ loc[p].oldRoles \cap StoredRoles(loc[p].req.user_id) = {}

\* C18: a provision_user request that succeeds with an empty user_roles
\* leaves the stored roles as they were and its token carries them; with a
\* value that is not blank, the stored roles are the pieces of the value
\* between commas, trimmed, the empty pieces dropped, also when none is left.
C18_RolesParsed ==
    \A p \in Procs :
      (Done(p) /\ IsProvision(p) /\ loc[p].result = "OK")
      => LET raw == loc[p].req.user_roles
             u == loc[p].req.user_id
         IN  /\ raw = <<>>
                => /\ StoredRoles(u) = loc[p].oldRoles
                   /\ SeqToSet(loc[p].token.claims.roles) = loc[p].oldRoles
             /\ TrimSpace(raw) # <<>>
                => StoredRoles(u) = SeqToSet(ParseRoles(raw))

\* The request of p is a provision_user request about to write, all its checks passed.
ProvisionChecksPassed(p) ==
    /\ pc[p] = "UpsertUserAndRoles"
    /\ IsProvision(p)
    /\ Authenticated(loc[p].req)
    /\ WithinLimit(loc[p].req, loc[p].count)
    /\ loc[p].req.user_id # "" /\ loc[p].req.user_full_name # "" /\ loc[p].req.user_phone # ""
    /\ loc[p].req.tenant_id \in dbTenants

\* A primary grant on an unknown path tenant reads and writes no user, mints
\* nothing, and ends with InvalidRequest once it has passed the checks before.
UnknownTenantRejected ==
    \A p \in Procs :
      ((IsCC(p) \/ IsProvision(p)) /\ loc[p].req.tenant_id \notin dbTenants)
      => /\ pc[p] \notin {"UpsertUserAndRoles", "GetUserByID", "GetUserRoles"} \cup Minting
         /\ ~Issued(p)
         /\ (Done(p) /\ Authenticated(loc[p].req) /\ WithinLimit(loc[p].req, loc[p].count)
             /\ loc[p].req.user_id # "" /\ loc[p].req.user_full_name # ""
             /\ IsProvision(p))
            => loc[p].result = "InvalidRequest"
         /\ (Done(p) /\ Authenticated(loc[p].req) /\ WithinLimit(loc[p].req, loc[p].count)
             /\ loc[p].req.user_id # "" /\ IsCC(p))
            => loc[p].result = "InvalidRequest"

Answers200(p) ==
    /\ pc[p] # "done" /\ pc'[p] = "done"
    /\ loc'[p].result = "OK"
    /\ loc'[p].req.grant_type \in {"client_credentials", "provision_user"}

\* The state as a primary grant answers 200.
SuccessPostcondition(p) ==
    LET l == loc[p]
        tok == l.newTok
        c == l.req.client_id
    IN  /\ tok # EmptyTok /\ tok = nextTok - 1
        /\ DOMAIN rt \subseteq 1..tok
        /\ tok \in DOMAIN rt
        /\ rt[tok].client_id = c
        /\ Authenticated(l.req)
        /\ rt[tok].subject = l.subject
        /\ ~l.subject.isNil
        /\ l.subject.user_id = l.req.user_id
        /\ l.subject.tenant_id = l.req.tenant_id
        /\ l.token.claims.sub = l.subject.user_id
        /\ l.token.claims.tid = l.subject.tenant_id
        /\ l.token.claims.roles = l.subject.roles
        /\ rt[tok].expires_at = now + RefreshTokenExpiry
        /\ rt[tok].exp = now + RefreshTokenExpiry
        /\ l.cacheOp \in {"hit", "stored", "unstored"}
        /\ l.cacheOp = "stored"
           => /\ c \in DOMAIN ccache
              /\ ccache[c] = [client |-> ClientOf(c, dbClients[c]), exp |-> now + ClientCacheTTL]
        /\ l.resp.status = 200
        /\ l.resp.token_type = "Bearer"
        /\ l.resp.expires_in = JWTExpiry

C10_AtMostLGranted ==
    \A c \in ClientIDs : win[c].granted <= dbClients[c].rate_limit

\* C10: of the requests one rate-limit counter counts, whatever their grants
\* and their interleaving, at most the rate limit of the client pass the
\* check; a request is answered RateLimitExceeded exactly when the count it
\* got exceeds the limit, and mints only when it does not.
C10_AtMostLPassed ==
    /\ \A c \in ClientIDs : win[c].passed <= dbClients[c].rate_limit
    /\ \A p \in Procs :
          /\ (~loc[p].client.isNil /\ loc[p].count > loc[p].client.rate_limit)
             => (Done(p) /\ loc[p].result = "RateLimitExceeded")
          /\ (Done(p) /\ loc[p].result = "RateLimitExceeded")
             => loc[p].count > loc[p].client.rate_limit
          /\ (pc[p] \in MintSteps \/ (Done(p) /\ loc[p].result = "OK"))
             => (loc[p].count >= 1 /\ loc[p].count <= loc[p].client.rate_limit)

\* A refresh is answered RateLimitExceeded after a primary grant has used
\* the window up.
C10_Witness ==
    \E p \in Procs :
      /\ Done(p) /\ IsRefresh(p)
      /\ loc[p].result = "RateLimitExceeded"
      /\ loc[p].count = loc[p].client.rate_limit + 1
      /\ win[loc[p].client.client_id].passed = loc[p].client.rate_limit

\* C11: a token request rejected by the rate limiter is answered with status
\* 429, the code RATE_LIMIT_EXCEEDED and a Retry-After header whose value is
\* the length of the window in seconds.
C11_RetryAfter ==
    \A p \in Procs :
      (Done(p) /\ loc[p].result = "RateLimitExceeded")
      => /\ loc[p].resp.status = 429
         /\ loc[p].resp.error = "RATE_LIMIT_EXCEEDED"
         /\ <<"Retry-After", ToString(RateLimitWindow)>> \in loc[p].resp.header

(***************************************************************************)
(* Properties of the rotation of a refresh token: the marker, the delete   *)
(* and the writes of a request that ends with an error.                    *)
(***************************************************************************)
\* C21: in every state, between the steps of a rotation and after a failed
\* store write as well, a refresh token on which a rotation has succeeded is
\* not both in the record store and without a revocation marker.
C21_MarkedWhilePresent ==
    \A tok \in DOMAIN rt : okCount[tok] > 0 => tok \in DOMAIN rrev

\* C23: a request that ends with an error response leaves the users, the
\* roles, the refresh-token records and the revocation markers as they were
\* when it arrived; after a refresh request that ends with an error, the
\* token it presented, if it was usable, still is.
C23_NoPartialWrites ==
    [][\A p \in Procs :
         (pc[p] # "done" /\ pc'[p] = "done" /\ loc'[p].result # "OK")
         => /\ Stored' = loc'[p].pre
            /\ LET tok == loc'[p].req.refresh_token
               IN  (IsRefresh(p)' /\ tok \in DOMAIN loc'[p].pre.rt
                    /\ tok \notin DOMAIN loc'[p].pre.rrev)
                   => (tok \in DOMAIN rt' /\ tok \notin DOMAIN rrev')]_vars

\* C24: the marker a rotation writes for the token it consumes expires when
\* that token would have expired: its TTL is the remaining lifetime of the
\* token, expires_at - now, no more and no less.
C24_ResidualTTL ==
    [][\A p \in Procs :
         LET tok == loc[p].req.refresh_token
         IN  (pc[p] = "RevokeRefreshToken" /\ pc'[p] # "RevokeRefreshToken"
              /\ tok \in DOMAIN rrev')
             => rrev'[tok] = loc[p].data.expires_at]_vars

(***************************************************************************)
(* Properties of the KeyManager: the signing, the rotation, the cleanup    *)
(* and the published key set.                                              *)
(***************************************************************************)
\* C22: whatever RotateKeys does during GenerateAccessToken, the kid in the
\* header of the token it returns names a key of the key map at that moment,
\* and the signature of the token is by the private key of that key.
C22_KidNamesSigningKey ==
    [][\A p \in Procs :
         (loc[p].token.isNil /\ ~loc'[p].token.isNil)
         => /\ loc'[p].token.kid \in DOMAIN keys'
            /\ loc'[p].token.sig = keys'[loc'[p].token.kid].material]_vars

\* C25: in every state of the KeyManager, currentKeyID names a key of the
\* key map that is active and has no expiry, and no other key of the map is
\* without an expiry; the private key of the current key exists, its public
\* key resolves, and CleanupExpiredKeys would not remove it.
C25_OneCurrentKey ==
    /\ currentKeyID \in DOMAIN keys
    /\ keys[currentKeyID].is_active
    /\ {k \in DOMAIN keys : keys[k].expires_at = ZeroTime} = {currentKeyID}
    /\ GetPrivateKey # NoKey
    /\ GetPublicKeyByID(GetCurrentKeyID) # NoKey
    /\ currentKeyID \in DOMAIN CleanedKeys

\* Two keys have been superseded and the cleanup has removed one of them.
C25_Witness ==
    /\ Cardinality(DOMAIN retired) = 2
    /\ \E k \in DOMAIN retired : k \notin DOMAIN keys
    /\ currentKeyID \notin DOMAIN retired

\* C26: a RotateKeys that has generated its key adds one key, with a kid
\* never used before and no expiry, and makes it the current key; it stamps
\* the key that was current with now + grace and changes nothing else of
\* it, and leaves every other key as it was.  A step that adds no key
\* leaves the current kid and every key it keeps as they were.
C26_RotateKeysFrame ==
    [][/\ nextKid' # nextKid
          => /\ nextKid \notin DOMAIN keys \cup DOMAIN retired
             /\ DOMAIN keys' = DOMAIN keys \cup {nextKid}
             /\ keys'[nextKid].expires_at = ZeroTime
             /\ keys'[nextKid].is_active
             /\ currentKeyID' = nextKid
             /\ currentKeyID \in DOMAIN keys
             /\ keys'[currentKeyID] =
                  [keys[currentKeyID] EXCEPT !.expires_at = now + gracePeriod]
             /\ \A k \in DOMAIN keys \ {currentKeyID} : keys'[k] = keys[k]
       /\ nextKid' = nextKid
          => /\ currentKeyID' = currentKeyID
             /\ \A k \in DOMAIN keys' : k \in DOMAIN keys /\ keys'[k] = keys[k]]_vars

\* A rotation has left the key superseded before it in the map, with the
\* expiry it had.
C26_Witness ==
    /\ Cardinality(DOMAIN keys) = 3
    /\ \E k \in DOMAIN keys :
         /\ k \in DOMAIN retired
         /\ k # currentKeyID
         /\ retired[k] < now
         /\ keys[k].expires_at = retired[k] + gracePeriod
         /\ \E j \in DOMAIN keys : j \in DOMAIN retired /\ retired[j] = now

\* C27: on a tick the scheduler calls RotateKeys, then CleanupExpiredKeys,
\* whether the rotation has generated its key or failed, then awaits the
\* next tick; no other step changes the keys; a rotation or a cleanup the
\* scheduler has reached is carried out; and when the cleanup of a tick
\* returns, no key whose expiry lies in the past is left in the key map.
C27_Scheduler ==
    /\ [][LET s == pc[Scheduler]
              t == pc'[Scheduler]
          IN  /\ (keys' # keys \/ currentKeyID' # currentKeyID)
                 => s \in {"RotateKeys", "CleanupExpiredKeys"}
              /\ (s = "waiting" /\ t # s) => t = "RotateKeys"
              /\ (s = "RotateKeys" /\ t # s)
                 => /\ t = "CleanupExpiredKeys"
                    /\ \/ currentKeyID' = nextKid /\ nextKid \in DOMAIN keys'
                       \/ keys' = keys /\ currentKeyID' = currentKeyID
              /\ (s = "CleanupExpiredKeys" /\ t # s)
                 => /\ t = "waiting"
                    /\ currentKeyID' = currentKeyID
                    /\ \A k \in DOMAIN keys' :
                         ~(keys'[k].expires_at # ZeroTime /\ keys'[k].expires_at < now')]_vars
    /\ (pc[Scheduler] = "RotateKeys") ~> (pc[Scheduler] = "CleanupExpiredKeys")
    /\ (pc[Scheduler] = "CleanupExpiredKeys") ~> (pc[Scheduler] = "waiting")

\* The scheduler awaits its next tick after a cleanup that has removed a
\* superseded key, the key superseded after it being kept.
C27_Witness ==
    /\ pc[Scheduler] = "waiting"
    /\ \E k \in DOMAIN retired : k \notin DOMAIN keys
    /\ \E k \in DOMAIN retired : k \in DOMAIN keys

C29_CacheNeverRejects ==
    \A p \in Procs :
      (Done(p) /\ (IsCC(p) \/ IsProvision(p)) /\ loc[p].cacheOp \in {"miss", "stored", "unstored"})
      => LET r == loc[p].req
         IN  /\ loc[p].result # "Internal"
             /\ loc[p].cacheOp = "miss"
                => /\ r.client_id \notin DOMAIN dbClients
                   /\ loc[p].result = "InvalidCredentials"
             /\ loc[p].cacheOp # "miss"
                => /\ r.client_id \in DOMAIN dbClients
                   /\ loc[p].client = ClientOf(r.client_id, dbClients[r.client_id])
                   /\ loc[p].result = "InvalidCredentials"
                      <=> ~CompareHashAndPassword(dbClients[r.client_id].hash, r.client_secret)
             /\ IsCC(p) => loc[p].result = FirstFailure(r, loc[p].count)

\* The lookup of the cache and the write of the cache have both failed
\* during a request, and the request has been granted.
C29_Witness ==
    \E p \in Procs :
      /\ Done(p) /\ IsCC(p)
      /\ nreq = 1 /\ faults = 2
      /\ loc[p].cacheOp = "unstored"
      /\ loc[p].result = "OK"
      /\ loc[p].req.client_id \notin DOMAIN ccache

\* C30: a client_credentials or provision_user request is granted only when
\* the secret it presents matches the hash the clients table holds for its
\* client as the request is answered: after the operator has replaced the
\* hash, no request with the old secret is granted.
C30_AuthByPersistentRecord ==
    [][\A p \in Procs :
         (pc[p] # "done" /\ pc'[p] = "done" /\ loc'[p].result = "OK"
          /\ loc'[p].req.grant_type \in {"client_credentials", "provision_user"})
         => Authenticated(loc[p].req)']_vars

\* C31: a grant of any type that the limiter has counted is answered
\* RateLimitExceeded exactly when its count exceeds the rate_limit the
\* clients table holds for its client as the grant is answered: after the
\* operator has changed the rate_limit, every grant is checked against the
\* new value.
C31_LimitOfPersistentRecord ==
    [][\A p \in Procs :
         LET c == loc'[p].client.client_id
         IN  (pc[p] # "done" /\ pc'[p] = "done" /\ loc'[p].count > 0
              /\ c \in DOMAIN dbClients')
             => (loc'[p].result = "RateLimitExceeded"
                 <=> loc'[p].count > dbClients'[c].rate_limit)]_vars

(***************************************************************************)
(* Properties of the calls whose error is logged, and of the errors of     *)
(* the stores.                                                             *)
(***************************************************************************)
\* The counter of client c has no TTL and no request is about to set one:
\* the EXPIRE of the request that created the key has failed.
LostExpiry(c) ==
    /\ c \in DOMAIN rl
    /\ rl[c].exp = NoTTL
    /\ \A q \in Procs : pc[q] = "Expire" => RateLimitClient(loc[q]) # c

\* C32: after the EXPIRE of a new counter has failed and the traffic of the
\* client has stopped for a window (the request that created the counter is
\* the only one counted, a window or more ago), the counter has been reset:
\* the next request of the client sees the count 1 again and is not
\* answered RateLimitExceeded.
C32_LostExpiryRecovers ==
    [][\A p \in Procs :
         LET c == RateLimitClient(loc[p])
         IN  (pc[p] = "Incr" /\ loc'[p].count > 0
              /\ LostExpiry(c) /\ rl[c].count = 1
              /\ now >= win[c].start + RateLimitWindow)
             => /\ loc'[p].count = 1
                /\ loc'[p].result # "RateLimitExceeded"]_vars

\* C33: whether the touch of updated_at answers or fails, the grant is
\* answered 200 with the pair it has minted and the record it has stored is
\* left as it is; whether the EXPIRE of a new counter answers or fails, the
\* grant goes on as the count, the limit and its parameters say, and is not
\* answered with an internal error.
C33_BestEffortCalls ==
    [][\A p \in Procs :
         /\ (pc[p] = "UpdateClientUpdatedAt" /\ pc'[p] # pc[p])
            => /\ pc'[p] = "done"
               /\ loc'[p].result = "OK"
               /\ loc'[p].resp = TokenResponse
               /\ loc'[p].token = loc[p].token
               /\ loc'[p].newTok = loc[p].newTok
               /\ loc[p].newTok \in DOMAIN rt
               /\ rt' = rt
         /\ (pc[p] = "Expire" /\ pc'[p] # pc[p])
            => LET r == loc[p].req
                   over == Exceeded(loc[p].count, loc[p].client.rate_limit)
                   incomplete == /\ r.grant_type # "refresh_token"
                                 /\ \/ r.user_id = ""
                                    \/ /\ r.grant_type = "provision_user"
                                       /\ (r.user_full_name = "" \/ r.user_phone = "")
               IN  /\ rt' = rt
                   /\ loc'[p].result = "RateLimitExceeded" <=> over
                   /\ loc'[p].result = "InvalidRequest" <=> (~over /\ incomplete)
                   /\ pc'[p] = "done" <=> (over \/ incomplete)
                   /\ pc'[p] # "done"
                      => pc'[p] = IF r.grant_type = "refresh_token"
                                  THEN "RevokeRefreshToken"
                                  ELSE "EnsureTenantExists"]_vars

\* A grant has been answered 200 after the EXPIRE of the counter it created
\* and the touch of its client have both failed.
C33_Witness ==
    \E p \in Procs :
      /\ Done(p) /\ IsCC(p) /\ loc[p].result = "OK"
      /\ loc[p].newTok \in DOMAIN rt
      /\ loc[p].token.claims.iat > 0
      /\ dbClients[loc[p].req.client_id].updated_at < loc[p].token.claims.iat
      /\ LostExpiry(loc[p].req.client_id)
      /\ rl[loc[p].req.client_id].count = 1

\* The calls a grant cannot do without.
RequiredCalls == {"GetClientByID", "RefreshGetClient", "Incr", "EnsureTenantExists",
                  "GetUserByID", "GetUserRoles", "UpsertUserAndRoles",
                  "GetRefreshToken", "IsRefreshTokenRevoked", "StoreRefreshToken"}

\* C34: when a call to Postgres or Redis that a grant cannot do without
\* ends with a transient error, the grant is answered with the internal
\* error (500), not with an error of the 4xx kind, and returns no token.
C34_TransientIsInternal ==
    [][\A p \in Procs :
         (pc[p] \in RequiredCalls /\ pc'[p] # pc[p] /\ faults' = faults + 1)
         => /\ pc'[p] = "done"
            /\ loc'[p].result = "Internal"
            /\ loc'[p].resp = ErrorResponse("Internal")
            /\ loc'[p].token = InitLoc.token
            /\ loc'[p].newTok = InitLoc.newTok]_vars

\* C35: a verification whose lookup of the jti marker fails answers not
\* valid and returns no claims, and no verification accepts a token whose
\* jti marker is present; a refresh grant whose lookup of the refresh-token
\* marker fails is answered with the internal error, writes no marker,
\* deletes and stores no record and issues no token, and no refresh grant
\* succeeds on a token whose marker was present when it was presented.
C35_LookupsFailClosed ==
    [][/\ (verdict' # verdict /\ faults' = faults + 1)
          => /\ ~verdict'.valid
             /\ verdict'.kind # "Valid"
             /\ verdict'.claims = ClaimsView(NoClaims)
       /\ (verdict' # verdict /\ IsTokenRevoked(verdict'.jti)) => ~verdict'.valid
       /\ \A p \in Procs :
            /\ (pc[p] = "IsRefreshTokenRevoked" /\ pc'[p] # pc[p] /\ faults' = faults + 1)
               => /\ pc'[p] = "done"
                  /\ loc'[p].result = "Internal"
                  /\ loc'[p].token = InitLoc.token
                  /\ loc'[p].newTok = InitLoc.newTok
                  /\ Stored' = loc[p].pre
            /\ (pc[p] # "done" /\ pc'[p] = "done" /\ IsRefresh(p)
                /\ loc[p].req.refresh_token \in DOMAIN loc[p].pre.rrev)
               => /\ loc'[p].result # "OK"
                  /\ loc'[p].token = InitLoc.token]_vars

\* The lookup of the jti marker of a revoked token has failed and the token
\* was answered not valid, and then the lookup of the marker of the refresh
\* token presented has failed and the rotation was answered with the
\* internal error.
C35_Witness ==
    /\ verdict.kind = "RevocationCheckFailed"
    /\ ~verdict.valid
    /\ IsTokenRevoked(verdict.jti)
    /\ \E p \in Procs :
         /\ Done(p) /\ IsRefresh(p) /\ loc[p].result = "Internal"
         /\ loc[p].req.refresh_token \in DOMAIN rt
         /\ Stored = loc[p].pre

(***************************************************************************)
(* Properties of the stores across a grant: what a rejected rotation       *)
(* leaves, the tenant of the records, the claims and the touch.            *)
(***************************************************************************)
\* The kinds with which a rotation is rejected.
Rejections == {"InvalidRefreshToken", "RateLimitExceeded"}

\* C36: a rotation that is rejected (unknown token, marker present, expired,
\* no subject or another tenant, no client, rate limit exceeded) has written
\* no marker, deleted no record and stored no record; the token it
\* presented, if it was usable, is still usable with the same record; and a
\* rejection that comes before the rate-limit step has not counted.
C36_RejectedRotationFrame ==
    [][\A p \in Procs :
         (pc[p] # "done" /\ pc'[p] = "done" /\ IsRefresh(p)
          /\ loc'[p].result \in Rejections)
         => LET tok == loc[p].req.refresh_token
                pre == loc[p].pre
            IN  /\ rrev' = pre.rrev
                /\ rt' = pre.rt
                /\ (tok \in DOMAIN pre.rt /\ tok \notin DOMAIN pre.rrev)
                   => /\ tok \in DOMAIN rt' /\ tok \notin DOMAIN rrev'
                      /\ rt'[tok] = pre.rt[tok]
                /\ loc'[p].token = InitLoc.token
                /\ loc'[p].newTok = InitLoc.newTok
                /\ loc'[p].result = "InvalidRefreshToken"
                   => (loc'[p].count = 0 /\ rl' = rl)
                /\ loc'[p].result = "RateLimitExceeded"
                   => pc[p] \in {"Incr", "Expire"}]_vars

\* A rotation has been rejected by the limiter and the token it presented is
\* still there, without a marker.
C36_Witness ==
    \E p \in Procs :
      /\ Done(p) /\ IsRefresh(p) /\ loc[p].result = "RateLimitExceeded"
      /\ loc[p].req.refresh_token \in DOMAIN rt
      /\ loc[p].req.refresh_token \notin DOMAIN rrev
      /\ rt = loc[p].pre.rt

\* C37: when no request is in flight, the subject of every refresh-token
\* record carries the tenant the users table holds for its user; and a
\* rotation succeeds only on the tenant the users table holds for the user
\* of the token.
C37_RecordTenantIsUserTenant ==
    /\ (\A p \in Procs : pc[p] \in {"idle", "done"})
       => \A tok \in DOMAIN rt :
            (~rt[tok].subject.isNil /\ rt[tok].subject.user_id \in DOMAIN dbUsers)
            => rt[tok].subject.tenant_id = dbUsers[rt[tok].subject.user_id].tenant_id
    /\ \A p \in Procs :
         (Done(p) /\ IsRefresh(p) /\ loc[p].result = "OK"
          /\ loc[p].token.claims.sub \in DOMAIN dbUsers)
         => loc[p].req.tenant_id = dbUsers[loc[p].token.claims.sub].tenant_id

\* The names of the claims of an access token: a claim the map does not
\* carry has its flag unset.
ClaimNames(claims) ==
    {"iss", "aud", "exp", "iat", "jti", "sub", "oid"}
    \cup (IF claims.hasTid THEN {"tid"} ELSE {})
    \cup (IF claims.hasRoles THEN {"roles"} ELSE {})
    \cup (IF claims.hasScp THEN {"scp"} ELSE {})

\* C38: provision_user requests that differ in user_full_name, user_phone
\* and user_email only are answered with access tokens whose claims, jti,
\* iat and exp apart, are the same, and the refresh-token records they store
\* carry the same subject; the names of the claims of an access token are
\* among iss, aud, exp, iat, jti, sub, oid, tid, roles and scp.
C38_ProfileNotInToken ==
    /\ \A a, b \in DOMAIN origin :
         /\ origin[a].claims = origin[b].claims
         /\ origin[a].subject = origin[b].subject
    /\ \A a, b \in DOMAIN rt : rt[a].subject = rt[b].subject
    /\ \A p \in Procs :
         (Done(p) /\ loc[p].result = "OK")
         => LET claims == loc[p].token.claims
            IN  /\ claims.iss = JWTIssuer
                /\ claims.aud = JWTAudience
                /\ claims.sub = loc[p].req.user_id
                /\ claims.oid = loc[p].req.user_id
                /\ claims.tid = loc[p].req.tenant_id
                /\ ClaimNames(claims) \subseteq {"iss", "aud", "exp", "iat", "jti", "sub", "oid",
                                                 "tid", "roles", "scp"}
                /\ DOMAIN claims \ {"hasTid", "hasRoles", "hasScp"}
                   \subseteq {"iss", "aud", "exp", "iat", "jti", "sub", "oid", "tid", "roles", "scp"}
                /\ loc[p].newTok \in DOMAIN rt
                   => rt[loc[p].newTok].subject = Subject(claims.sub, claims.tid, claims.roles)

\* Two requests with another name, phone and email have been answered 200 and
\* the records of both are in the store.
C38_Witness ==
    \E a, b \in DOMAIN rt :
      /\ a # b
      /\ a \in DOMAIN origin /\ b \in DOMAIN origin
      /\ \E p \in Procs :
           /\ Done(p) /\ loc[p].result = "OK" /\ loc[p].newTok = b
           /\ loc[p].req.user_email = "e"
           /\ dbUsers["u1"].email = "e"
           /\ dbUsers["u1"].full_name = "m"
           /\ dbUsers["u1"].phone = "q"

\* C39: a grant of any of the three kinds that is answered 200 has set the
\* updated_at of its client, once, after its refresh-token record was
\* stored; no other step of a grant, and no grant answered with an error,
\* changes the clients table.
C39_TouchedOnce ==
    [][\A p \in Procs :
         LET c == RateLimitClient(loc[p])
         IN  /\ (pc[p] # "done" /\ pc'[p] = "done" /\ loc'[p].result = "OK")
                => /\ pc[p] = "UpdateClientUpdatedAt"
                   /\ loc[p].newTok \in DOMAIN rt
                   /\ c \in DOMAIN dbClients'
                   /\ dbClients'[c].updated_at = now
                   /\ \A d \in DOMAIN dbClients \ {c} : dbClients'[d] = dbClients[d]
             /\ (pc[p] # "UpdateClientUpdatedAt" /\ pc'[p] # pc[p])
                => dbClients' = dbClients]_vars
====
